---- MODULE Spec2Model ----
(***************************************************************************)
(* Model of the EZVIZ on-demand streaming add-on.                          *)
(*                                                                         *)
(*   - StreamManager (ezviz-camera/stream_manager.py): the start/stop/     *)
(*     idle-timeout lifecycle of the capture-process | segmenter pipeline, *)
(*     its lock, its idle-monitor thread and the supervised processes.     *)
(*   - VTMPacket / EzvizCamera._parse_header (ezviz_stream.py): the 8-byte *)
(*     packet header codec, modelled on byte sequences.                    *)
(*   - stream_to_pipe (ezviz-camera/stream_to_pipe.py): the read loop that *)
(*     copies stream-channel payloads from the relay socket to stdout.     *)
(*   - EzvizStream._send_stream_request: the request/response exchange.    *)
(*   - StreamManager._cleanup_segments: pruning of old segment files.      *)
(*   - EzvizAPI.get_vtdu_tokens (base64 padding) and the extraction of the *)
(*     redirect URL in EzvizCamera._get_stream_info.                       *)
(***************************************************************************)
EXTENDS Integers, Sequences, FiniteSets, TLC

(***************************************************************************)
(* Bounds of the model                                                     *)
(***************************************************************************)
\* idle_timeout is a constructor argument (default 30 s); a small value
\* keeps the clock small.
IdleTimeout == 2
\* the last second of the clock
MaxTime == 4
\* how many pipelines start_stream may spawn (caps restart_count)
MaxRestarts == 2

(***************************************************************************)
(* Threads                                                                 *)
(***************************************************************************)
\* the idle-monitor thread
Monitor == 0
\* the threads calling the manager's public methods
Clients == {1, 2}
Threads == Clients \cup {Monitor}
\* value of `lock` when nobody holds it
NoThread == -1
\* value of a process handle that is None
None == 0

PairIds == 1..MaxRestarts

VARIABLES
    \* StreamManager fields
    running,        \* self.running
    process,        \* self.process: handle of the segmenter (ffmpeg), or None
    python_proc,    \* self._python_proc: handle of the capture process, or None
    last_activity,  \* self.last_activity
    restart_count,  \* self.restart_count
    lock,           \* self.lock: the thread holding it, or NoThread
    \* threads
    pc,             \* where each thread is
    ret,            \* what a client's finished call returned
    local,          \* start_stream's local python_proc of each thread
    observed,       \* the pipeline the monitor saw idle in its current tick
    \* environment
    now,            \* time.time()
    py,             \* for each spawned capture process: is it running
    ff,             \* for each spawned segmenter: is it running
    \* packet codec
    phase,          \* "input" | "encoded" | "decoded"
    packet,         \* the arguments of VTMPacket.encode
    wire,           \* bytes handed to a header decoder
    decoded,        \* result of VTMPacket.decode_header
    parsed,         \* result of EzvizCamera._parse_header
    \* a TCP connection to a relay, seen from the client
    stream,         \* every byte the peer sends on the connection
    pos,            \* how many of them recv has returned so far
    peer,           \* "open" | "closed": has the peer closed the connection
    event,          \* outcome of the last socket or pipe call
    \* stream_to_pipe's read loop
    r_pc,           \* where the loop is
    r_channel,      \* `channel` of the packet being read
    r_remaining,    \* `remaining`: payload bytes still to read
    r_data,         \* `data`: payload bytes read so far
    out,            \* bytes written to sys.stdout.buffer
    \* _send_stream_request
    n_pc,           \* where the exchange is
    n_header,       \* result of decoding the response header
    n_body,         \* the response body it returns
    \* _cleanup_segments and the segment directory
    c_pc,           \* where the pruning is
    files,          \* the *.ts files in the directory
    mtime,          \* modification time of each file the pruning found
    doomed,         \* segments[:-30] not yet iterated over
    \* functions applied to one input
    f_pc,           \* which function is applied, or "done"
    f_in,           \* its input
    f_out,          \* its result
    \* stream_to_pipe before its read loop
    vtm_sock,       \* the first relay's socket
    vtdu_sock,      \* `sock`: the second relay's socket
    neg_error,      \* what went wrong while negotiating, or "none"
    \* EzvizAPI and EzvizCamera
    session_id,     \* EzvizAPI.session_id
    auth_url,       \* EzvizAPI.auth_url
    connected,      \* EzvizCamera._connected
    http_log,       \* the requests the last call issued, in order
    api_ret,        \* outcome of the last call
    \* run_on_demand_server's signal handler
    shutdown        \* where the handler is

mgrVars == <<running, process, python_proc, last_activity, restart_count, lock,
             pc, ret, local, observed, now, py, ff>>
codecVars == <<phase, packet, wire, decoded, parsed>>
sockVars == <<stream, pos, peer, event>>
readerVars == <<r_pc, r_channel, r_remaining, r_data, out>>
negVars == <<n_pc, n_header, n_body>>
pruneVars == <<c_pc, files, mtime, doomed>>
fnVars == <<f_pc, f_in, f_out>>
capVars == <<vtm_sock, vtdu_sock, neg_error>>
apiVars == <<session_id, auth_url, connected, http_log, api_ret>>
sigVars == <<shutdown>>
ioVars == <<sockVars, readerVars, negVars, pruneVars, fnVars, capVars, apiVars,
            sigVars>>
\* everything but the connection, the read loop and the relay sockets
capRest == <<mgrVars, codecVars, negVars, pruneVars, fnVars, apiVars, sigVars>>
\* everything but the connection and the read loop
readerRest == <<capRest, capVars>>
vars == <<mgrVars, codecVars, ioVars>>

(***************************************************************************)
(* StreamManager.__init__                                                  *)
(***************************************************************************)
ManagerInit ==
    /\ running = FALSE
    /\ process = None
    /\ python_proc = None
    /\ last_activity = 0
    /\ restart_count = 0
    /\ lock = NoThread
    /\ pc = [t \in Threads |-> IF t = Monitor THEN "none" ELSE "idle"]
    /\ ret = [t \in Clients |-> "none"]
    /\ local = [t \in Threads |-> None]
    /\ observed = None
    /\ now = 1
    /\ py = [i \in PairIds |-> FALSE]
    /\ ff = [i \in PairIds |-> FALSE]

\* Popen.poll() is None
Alive(tab, h) == h # None /\ tab[h]

\* the `with self.lock:` block is left, by return or by an exception
Release(t) == lock' = IF lock = t THEN NoThread ELSE lock

\* a lock that does not exclude: entered whoever holds it
AcquireNoWait(t) == lock' = t

\* `with self.lock:` is entered
Acquire(t) == lock = NoThread /\ lock' = t

(***************************************************************************)
(* StreamManager.start_stream                                              *)
(***************************************************************************)
\* line 44: a client calls start_stream and enters `with self.lock:`
StartAcquire(t) ==
    /\ t \in Clients /\ pc[t] = "idle"
    \* the model's cap on restart_count: no call that would have to spawn
    /\ (restart_count < MaxRestarts \/ (running /\ Alive(ff, process)))
    /\ Acquire(t)
    /\ pc' = [pc EXCEPT ![t] = "start_check"]
    /\ UNCHANGED <<running, process, python_proc, last_activity, restart_count,
                   ret, local, observed, now, py, ff, codecVars, ioVars>>

\* line 45: self.running and self.process and self.process.poll() is None
AlreadyStreaming == running /\ Alive(ff, process)

\* lines 45-47: already streaming: refresh last_activity, return True
StartRefresh(t) ==
    /\ pc[t] = "start_check"
    /\ AlreadyStreaming
    /\ last_activity' = now
    /\ Release(t)
    /\ pc' = [pc EXCEPT ![t] = "returned"]
    /\ ret' = [ret EXCEPT ![t] = "start_refreshed"]
    /\ UNCHANGED <<running, process, python_proc, restart_count,
                   local, observed, now, py, ff, codecVars, ioVars>>

\* lines 45-49: not streaming: count the restart, go on to spawn
StartCount(t) ==
    /\ pc[t] = "start_check"
    /\ ~AlreadyStreaming
    /\ restart_count < MaxRestarts
    /\ restart_count' = restart_count + 1
    /\ pc' = [pc EXCEPT ![t] = "start_popen_py"]
    /\ UNCHANGED <<running, process, python_proc, last_activity, lock,
                   ret, local, observed, now, py, ff, codecVars, ioVars>>

\* lines 79-83: python_proc = subprocess.Popen(python_cmd, ...)
StartPopenPython(t) ==
    /\ pc[t] = "start_popen_py"
    /\ py' = [py EXCEPT ![restart_count] = TRUE]
    /\ local' = [local EXCEPT ![t] = restart_count]
    /\ pc' = [pc EXCEPT ![t] = "start_popen_ff"]
    /\ UNCHANGED <<running, process, python_proc, last_activity, restart_count,
                   lock, ret, observed, now, ff, codecVars, ioVars>>

\* lines 79-83: Popen raises (OSError): the exception leaves start_stream
StartPopenPythonFails(t) ==
    /\ pc[t] = "start_popen_py"
    /\ Release(t)
    /\ pc' = [pc EXCEPT ![t] = "returned"]
    /\ ret' = [ret EXCEPT ![t] = "start_raised"]
    /\ UNCHANGED <<running, process, python_proc, last_activity, restart_count,
                   local, observed, now, py, ff, codecVars, ioVars>>

\* lines 85-90: self.process = subprocess.Popen(ffmpeg_cmd, ...)
StartPopenFfmpeg(t) ==
    /\ pc[t] = "start_popen_ff"
    /\ ff' = [ff EXCEPT ![local[t]] = TRUE]
    /\ process' = local[t]
    /\ pc' = [pc EXCEPT ![t] = "start_record"]
    /\ UNCHANGED <<running, python_proc, last_activity, restart_count,
                   lock, ret, local, observed, now, py, codecVars, ioVars>>

\* lines 85-90: Popen raises: the exception leaves start_stream, the local
\* python_proc is dropped with the capture process still running
StartPopenFfmpegFails(t) ==
    /\ pc[t] = "start_popen_ff"
    /\ Release(t)
    /\ local' = [local EXCEPT ![t] = None]
    /\ pc' = [pc EXCEPT ![t] = "returned"]
    /\ ret' = [ret EXCEPT ![t] = "start_raised"]
    /\ UNCHANGED <<running, process, python_proc, last_activity, restart_count,
                   observed, now, py, ff, codecVars, ioVars>>

\* line 99: self.monitor_thread is None or not self.monitor_thread.is_alive()
MonitorNotAlive == pc[Monitor] \in {"none", "m_dead"}

\* lines 93-104: record the capture process, set running, refresh
\* last_activity, start the monitor thread if it is not running, return True
StartRecord(t) ==
    /\ pc[t] = "start_record"
    /\ python_proc' = local[t]
    /\ running' = TRUE
    /\ last_activity' = now
    /\ Release(t)
    /\ local' = [local EXCEPT ![t] = None]
    /\ pc' = [pc EXCEPT ![t] = "returned",
                        ![Monitor] = IF MonitorNotAlive THEN "m_sleep" ELSE @]
    /\ ret' = [ret EXCEPT ![t] = "start_spawned"]
    /\ UNCHANGED <<process, restart_count, observed, now, py, ff, codecVars, ioVars>>

\* the caller takes the result of its call
Return(t) ==
    /\ t \in Clients /\ pc[t] = "returned"
    /\ pc' = [pc EXCEPT ![t] = "idle"]
    /\ ret' = [ret EXCEPT ![t] = "none"]
    /\ UNCHANGED <<running, process, python_proc, last_activity, restart_count,
                   lock, local, observed, now, py, ff, codecVars, ioVars>>

(***************************************************************************)
(* StreamManager.stop_stream                                               *)
(***************************************************************************)
\* where stop_stream is called from: a client's call, or line 157 of the
\* monitor loop
StopCallSite(t) == IF t = Monitor THEN "m_call_stop" ELSE "idle"

\* where a thread continues after stop_stream returned
StopReturnSite(t) == IF t = Monitor THEN "m_cleanup" ELSE "returned"

\* where a thread continues after stop_stream raised: the monitor thread has
\* no handler and dies
StopRaiseSite(t) == IF t = Monitor THEN "m_dead" ELSE "returned"

SetRet(t, v) == ret' = IF t \in Clients THEN [ret EXCEPT ![t] = v] ELSE ret

\* line 108: stop_stream is called and enters `with self.lock:`
StopAcquire(t) ==
    /\ pc[t] = StopCallSite(t)
    /\ Acquire(t)
    /\ pc' = [pc EXCEPT ![t] = "stop_check"]
    /\ UNCHANGED <<running, process, python_proc, last_activity, restart_count,
                   ret, local, observed, now, py, ff, codecVars, ioVars>>

\* lines 109-110: if not self.running: return
StopNoop(t) ==
    /\ pc[t] = "stop_check"
    /\ ~running
    /\ Release(t)
    /\ pc' = [pc EXCEPT ![t] = StopReturnSite(t)]
    /\ SetRet(t, "stop_noop")
    /\ UNCHANGED <<running, process, python_proc, last_activity, restart_count,
                   local, observed, now, py, ff, codecVars, ioVars>>

\* line 113: self.running = False
StopClearRunning(t) ==
    /\ pc[t] = "stop_check"
    /\ running
    /\ running' = FALSE
    /\ pc' = [pc EXCEPT ![t] = "stop_python"]
    /\ UNCHANGED <<process, python_proc, last_activity, restart_count, lock,
                   ret, local, observed, now, py, ff, codecVars, ioVars>>

\* terminate(); wait(timeout=5); kill() in the bare except. On a process
\* that has exited terminate() and wait() do nothing and do not fail. On a
\* live process either the terminate/wait succeeds or it fails (terminate
\* raises, or wait times out) and kill() ends the process: both leave it
\* dead.
Terminated(tab, h) == IF Alive(tab, h) THEN [tab EXCEPT ![h] = FALSE] ELSE tab

\* lines 116-121: the capture process is terminated (or there is none)
StopPython(t) ==
    /\ pc[t] = "stop_python"
    /\ py' = Terminated(py, python_proc)
    /\ pc' = [pc EXCEPT ![t] = "stop_ffmpeg"]
    /\ UNCHANGED <<running, process, python_proc, last_activity, restart_count,
                   lock, ret, local, observed, now, ff, codecVars, ioVars>>

\* lines 120-121: terminate or wait failed and kill() raises too: the
\* exception leaves stop_stream
StopPythonKillFails(t) ==
    /\ pc[t] = "stop_python"
    /\ Alive(py, python_proc)
    /\ Release(t)
    /\ pc' = [pc EXCEPT ![t] = StopRaiseSite(t)]
    /\ SetRet(t, "stop_raised")
    /\ UNCHANGED <<running, process, python_proc, last_activity, restart_count,
                   local, observed, now, py, ff, codecVars, ioVars>>

\* lines 123-128: the segmenter is terminated (or there is none)
StopFfmpeg(t) ==
    /\ pc[t] = "stop_ffmpeg"
    /\ ff' = Terminated(ff, process)
    /\ pc' = [pc EXCEPT ![t] = "stop_clear"]
    /\ UNCHANGED <<running, process, python_proc, last_activity, restart_count,
                   lock, ret, local, observed, now, py, codecVars, ioVars>>

\* lines 127-128: terminate or wait failed and kill() raises too
StopFfmpegKillFails(t) ==
    /\ pc[t] = "stop_ffmpeg"
    /\ Alive(ff, process)
    /\ Release(t)
    /\ pc' = [pc EXCEPT ![t] = StopRaiseSite(t)]
    /\ SetRet(t, "stop_raised")
    /\ UNCHANGED <<running, process, python_proc, last_activity, restart_count,
                   local, observed, now, py, ff, codecVars, ioVars>>

\* lines 130-131: both handles are cleared, the lock is released
StopClearHandles(t) ==
    /\ pc[t] = "stop_clear"
    /\ process' = None
    /\ python_proc' = None
    /\ Release(t)
    /\ pc' = [pc EXCEPT ![t] = StopReturnSite(t)]
    /\ SetRet(t, "stop_done")
    /\ UNCHANGED <<running, last_activity, restart_count,
                   local, observed, now, py, ff, codecVars, ioVars>>

(***************************************************************************)
(* StreamManager.touch_activity, StreamManager.is_streaming                *)
(***************************************************************************)
\* a touch_activity that also sets the running flag
TouchActivityStarts(t) ==
    /\ t \in Clients /\ pc[t] = "idle"
    /\ last_activity' = now
    /\ running' = TRUE
    /\ UNCHANGED <<process, python_proc, restart_count, lock,
                   pc, ret, local, observed, now, py, ff, codecVars, ioVars>>

\* line 135: self.last_activity = time.time(), without the lock
TouchActivity(t) ==
    /\ t \in Clients /\ pc[t] = "idle"
    /\ last_activity' = now
    /\ UNCHANGED <<running, process, python_proc, restart_count, lock,
                   pc, ret, local, observed, now, py, ff, codecVars, ioVars>>

\* line 173: is_streaming is called and enters `with self.lock:`
IsStreamingAcquire(t) ==
    /\ t \in Clients /\ pc[t] = "idle"
    /\ Acquire(t)
    /\ pc' = [pc EXCEPT ![t] = "is_read"]
    /\ UNCHANGED <<running, process, python_proc, last_activity, restart_count,
                   ret, local, observed, now, py, ff, codecVars, ioVars>>

\* the liveness test on the capture process instead of self.process
IsStreamingValueCapture == running /\ Alive(py, python_proc)

\* line 174: self.running and self.process and self.process.poll() is None
IsStreamingValue == running /\ Alive(ff, process)

\* line 174: return the value, leaving the lock
IsStreamingRead(t) ==
    /\ pc[t] = "is_read"
    /\ Release(t)
    /\ pc' = [pc EXCEPT ![t] = "returned"]
    /\ ret' = [ret EXCEPT ![t] = IF IsStreamingValue THEN "is_true" ELSE "is_false"]
    /\ UNCHANGED <<running, process, python_proc, last_activity, restart_count,
                   local, observed, now, py, ff, codecVars, ioVars>>

(***************************************************************************)
(* StreamManager._monitor_loop                                             *)
(***************************************************************************)
\* lines 139-142: the sleep of one tick is over (the stop event is never
\* set), the loop enters `with self.lock:`
MonitorWake ==
    /\ pc[Monitor] = "m_sleep"
    /\ Acquire(Monitor)
    /\ observed' = None
    /\ pc' = [pc EXCEPT ![Monitor] = "m_locked"]
    /\ UNCHANGED <<running, process, python_proc, last_activity, restart_count,
                   ret, local, now, py, ff, codecVars, ioVars>>

\* lines 143-144: if not self.running: continue
MonitorNotRunning ==
    /\ pc[Monitor] = "m_locked"
    /\ ~running
    /\ Release(Monitor)
    /\ pc' = [pc EXCEPT ![Monitor] = "m_sleep"]
    /\ UNCHANGED <<running, process, python_proc, last_activity, restart_count,
                   ret, local, observed, now, py, ff, codecVars, ioVars>>

\* the idle test with >= in place of >
IdleExpiredAtTimeout == now - last_activity >= IdleTimeout

\* lines 147-148: idle_time = time.time() - self.last_activity;
\* idle_time > self.idle_timeout
IdleExpired == now - last_activity > IdleTimeout

\* lines 147-151: the idle check; on expiry self.running = False. The with
\* block ends.
MonitorCheckIdle ==
    /\ pc[Monitor] = "m_locked"
    /\ running
    /\ running' = ~IdleExpired
    /\ observed' = IF IdleExpired THEN process ELSE None
    /\ Release(Monitor)
    /\ pc' = [pc EXCEPT ![Monitor] = "m_read_running"]
    /\ UNCHANGED <<process, python_proc, last_activity, restart_count,
                   ret, local, now, py, ff, codecVars, ioVars>>

\* line 156: `not self.running`, read without the lock
MonitorReadRunning ==
    /\ pc[Monitor] = "m_read_running"
    /\ pc' = [pc EXCEPT ![Monitor] = IF running THEN "m_sleep" ELSE "m_read_process"]
    /\ UNCHANGED <<running, process, python_proc, last_activity, restart_count,
                   lock, ret, local, observed, now, py, ff, codecVars, ioVars>>

\* line 156: `and self.process`, read without the lock; line 157 follows
\* when it is set
MonitorReadProcess ==
    /\ pc[Monitor] = "m_read_process"
    /\ pc' = [pc EXCEPT ![Monitor] = IF process # None THEN "m_call_stop" ELSE "m_sleep"]
    /\ UNCHANGED <<running, process, python_proc, last_activity, restart_count,
                   lock, ret, local, observed, now, py, ff, codecVars, ioVars>>

\* line 160: self._cleanup_segments(), then the next iteration
MonitorCleanup ==
    /\ pc[Monitor] = "m_cleanup"
    /\ pc' = [pc EXCEPT ![Monitor] = "m_sleep"]
    /\ UNCHANGED <<running, process, python_proc, last_activity, restart_count,
                   lock, ret, local, observed, now, py, ff, codecVars, ioVars>>

(***************************************************************************)
(* Environment: the clock and the supervised processes                     *)
(***************************************************************************)
\* time.time() advances
Tick ==
    /\ now < MaxTime
    /\ now' = now + 1
    /\ UNCHANGED <<running, process, python_proc, last_activity, restart_count,
                   lock, pc, ret, local, observed, py, ff, codecVars, ioVars>>

\* the capture process exits by itself (relay closed the session, error,
\* broken pipe)
PythonExits(i) ==
    /\ py[i]
    /\ py' = [py EXCEPT ![i] = FALSE]
    /\ UNCHANGED <<running, process, python_proc, last_activity, restart_count,
                   lock, pc, ret, local, observed, now, ff, codecVars, ioVars>>

\* the segmenter exits by itself (end of input, error)
FfmpegExits(i) ==
    /\ ff[i]
    /\ ff' = [ff EXCEPT ![i] = FALSE]
    /\ UNCHANGED <<running, process, python_proc, last_activity, restart_count,
                   lock, pc, ret, local, observed, now, py, codecVars, ioVars>>

\* the packet codec is not used by the manager
CodecIdle ==
    /\ phase = "off"
    /\ packet = <<>>
    /\ wire = <<>>
    /\ decoded = <<>>
    /\ parsed = <<>>

\* no connection is open
SockIdle == stream = <<>> /\ pos = 0 /\ peer = "none" /\ event = "none"

\* the read loop is not running
ReaderIdle ==
    /\ r_pc = "off" /\ r_channel = 0 /\ r_remaining = 0 /\ r_data = <<>>
    /\ out = <<>>

\* no negotiation is under way
NegIdle == n_pc = "off" /\ n_header = <<>> /\ n_body = <<>>

\* no pruning is under way
PruneIdle == c_pc = "off" /\ files = {} /\ mtime = <<>> /\ doomed = <<>>

\* no function is applied
FnIdle == f_pc = "off" /\ f_in = <<>> /\ f_out = <<>>

\* nothing but the manager is active
\* no capture process has been started
CapIdle == vtm_sock = "none" /\ vtdu_sock = "none" /\ neg_error = "none"

\* EzvizAPI.__init__ and EzvizCamera.__init__, before any call
ApiIdle ==
    /\ session_id = <<"None">> /\ auth_url = "None" /\ connected = FALSE
    /\ http_log = <<>>
    /\ api_ret = [call |-> "none", raised |-> FALSE, value |-> "none",
                  listing |-> <<>>, resource |-> 0]

\* no signal has been delivered
SigIdle == shutdown = "none"

ExtraIdle == CapIdle /\ ApiIdle /\ SigIdle

IoIdle ==
    SockIdle /\ ReaderIdle /\ NegIdle /\ PruneIdle /\ FnIdle /\ ExtraIdle

Init == ManagerInit /\ CodecIdle /\ IoIdle

Next ==
    \/ \E t \in Clients : StartAcquire(t)
    \/ \E t \in Clients : StartRefresh(t)
    \/ \E t \in Clients : StartCount(t)
    \/ \E t \in Clients : StartPopenPython(t)
    \/ \E t \in Clients : StartPopenPythonFails(t)
    \/ \E t \in Clients : StartPopenFfmpeg(t)
    \/ \E t \in Clients : StartPopenFfmpegFails(t)
    \/ \E t \in Clients : StartRecord(t)
    \/ \E t \in Clients : Return(t)
    \/ \E t \in Threads : StopAcquire(t)
    \/ \E t \in Threads : StopNoop(t)
    \/ \E t \in Threads : StopClearRunning(t)
    \/ \E t \in Threads : StopPython(t)
    \/ \E t \in Threads : StopPythonKillFails(t)
    \/ \E t \in Threads : StopFfmpeg(t)
    \/ \E t \in Threads : StopFfmpegKillFails(t)
    \/ \E t \in Threads : StopClearHandles(t)
    \/ \E t \in Clients : TouchActivity(t)
    \/ \E t \in Clients : IsStreamingAcquire(t)
    \/ \E t \in Clients : IsStreamingRead(t)
    \/ MonitorWake
    \/ MonitorNotRunning
    \/ MonitorCheckIdle
    \/ MonitorReadRunning
    \/ MonitorReadProcess
    \/ MonitorCleanup
    \/ Tick
    \/ \E i \in PairIds : PythonExits(i)
    \/ \E i \in PairIds : FfmpegExits(i)

Spec == Init /\ [][Next]_vars

\* the manager with no failing system call and no process exiting by
\* itself: every call of the public methods, the monitor and the clock
NextSteady ==
    \/ \E t \in Clients : StartAcquire(t)
    \/ \E t \in Clients : StartRefresh(t)
    \/ \E t \in Clients : StartCount(t)
    \/ \E t \in Clients : StartPopenPython(t)
    \/ \E t \in Clients : StartPopenFfmpeg(t)
    \/ \E t \in Clients : StartRecord(t)
    \/ \E t \in Clients : Return(t)
    \/ \E t \in Threads : StopAcquire(t)
    \/ \E t \in Threads : StopNoop(t)
    \/ \E t \in Threads : StopClearRunning(t)
    \/ \E t \in Threads : StopPython(t)
    \/ \E t \in Threads : StopFfmpeg(t)
    \/ \E t \in Threads : StopClearHandles(t)
    \/ \E t \in Clients : TouchActivity(t)
    \/ \E t \in Clients : IsStreamingAcquire(t)
    \/ \E t \in Clients : IsStreamingRead(t)
    \/ MonitorWake
    \/ MonitorNotRunning
    \/ MonitorCheckIdle
    \/ MonitorReadRunning
    \/ MonitorReadProcess
    \/ MonitorCleanup
    \/ Tick

SpecSteady == Init /\ [][NextSteady]_vars

(***************************************************************************)
(* Packet header codec (ezviz_stream.py)                                   *)
(***************************************************************************)
\* EzvizConfig.MAGIC_BYTE
MAGIC_BYTE == 36
\* EzvizConfig.MSG_STREAMINFO_REQ
MSG_STREAMINFO_REQ == 315
\* length of the packet header, struct.calcsize('>BBHHH')
HeaderLen == 8

\* how many different fill patterns the payloads and raw headers are drawn
\* with
MaxFill == 2
\* how many bytes longer than a header a raw decoder input may be
MaxExtra == 2

\* a 16-bit value packed low byte first
PackU16LowFirst(v) == <<v % 256, v \div 256>>

\* struct format 'H' with '>': an unsigned 16-bit value, high byte first
PackU16(v) == <<v \div 256, v % 256>>
UnpackU16(hi, lo) == hi * 256 + lo

\* struct.pack('>BBHHH', ...) raises struct.error for a value out of range
PackFits(channel, length, sequence, message_code) ==
    /\ channel \in 0..255
    /\ length \in 0..65535
    /\ sequence \in 0..65535
    /\ message_code \in 0..65535

\* VTMPacket.encode(data, message_code, channel, sequence)
encode(data, message_code, channel, sequence) ==
    IF PackFits(channel, Len(data), sequence, message_code)
    THEN [err |-> "none",
          bytes |-> <<MAGIC_BYTE, channel>> \o PackU16(Len(data))
                    \o PackU16(sequence) \o PackU16(message_code) \o data]
    ELSE [err |-> "struct.error", bytes |-> <<>>]

\* struct.unpack('>BBHHH', header) of exactly 8 bytes:
\* <<magic, channel, length, sequence, msg_code>>
Unpack(header) ==
    <<header[1], header[2], UnpackU16(header[3], header[4]),
      UnpackU16(header[5], header[6]), UnpackU16(header[7], header[8])>>

\* VTMPacket.decode_header(header)
decode_header(header) ==
    IF Len(header) # HeaderLen
    THEN [err |-> "ValueError", fields |-> <<>>]
    ELSE IF Unpack(header)[1] # MAGIC_BYTE
    THEN [err |-> "ValueError", fields |-> <<>>]
    ELSE [err |-> "none", fields |-> Unpack(header)]

\* EzvizCamera._parse_header(header): the length test is `< 8`, and
\* struct.unpack raises struct.error for a buffer that is not 8 bytes long
parse_header(header) ==
    IF Len(header) < HeaderLen
    THEN [err |-> "ValueError", fields |-> <<>>]
    ELSE IF Len(header) # HeaderLen
    THEN [err |-> "struct.error", fields |-> <<>>]
    ELSE IF Unpack(header)[1] # MAGIC_BYTE
    THEN [err |-> "ValueError", fields |-> <<>>]
    ELSE [err |-> "none", fields |-> Unpack(header)]

\* sample values of the 8-bit and 16-bit header fields
U8Samples == {0, 1, 10, 11, 255}
U16Samples == {0, 1, 255, 256, MSG_STREAMINFO_REQ, 65535}
\* sample payload lengths, up to the largest the length field holds
LenSamples == {0, 1, 2, 255, 256, 300, 65535}
\* first bytes of raw decoder inputs: the sentinel and others
FirstByteSamples == {MAGIC_BYTE, 0, 1, 35, 37, 255}

Fill(n, k) == [i \in 1..n |-> (k * 36 + i - 1) % 256]

Payloads == {Fill(n, k) : n \in LenSamples, k \in 1..MaxFill}

\* raw inputs of a header decoder: every length up to a header and a bit
\* more, the first byte a sample, the rest a fill pattern (one of which
\* repeats the sentinel)
RawHeaders ==
    {<<>>} \cup
    {<<b>> \o Fill(n - 1, k) :
        b \in FirstByteSamples, n \in 1..(HeaderLen + MaxExtra), k \in 1..MaxFill}

\* either a packet to encode, or raw bytes to decode
CodecInit ==
    /\ decoded = <<>>
    /\ parsed = <<>>
    /\ \/ /\ phase = "input"
          /\ packet \in [data : Payloads, message_code : U16Samples,
                         channel : U8Samples, sequence : U16Samples]
          /\ wire = <<>>
       \/ /\ phase = "raw"
          /\ packet = <<>>
          /\ wire \in RawHeaders

\* a packet is encoded
EncodePacket ==
    /\ phase = "input"
    /\ wire' = encode(packet.data, packet.message_code, packet.channel,
                      packet.sequence).bytes
    /\ phase' = "encoded"
    /\ UNCHANGED <<packet, decoded, parsed, mgrVars, ioVars>>

\* the first 8 bytes of the encoded packet are decoded as its header
DecodeEncoded ==
    /\ phase = "encoded"
    /\ decoded' = decode_header(SubSeq(wire, 1, HeaderLen))
    /\ parsed' = parse_header(SubSeq(wire, 1, HeaderLen))
    /\ phase' = "decoded"
    /\ UNCHANGED <<packet, wire, mgrVars, ioVars>>

\* arbitrary bytes are handed to both header decoders
DecodeRaw ==
    /\ phase = "raw"
    /\ decoded' = decode_header(wire)
    /\ parsed' = parse_header(wire)
    /\ phase' = "raw_decoded"
    /\ UNCHANGED <<packet, wire, mgrVars, ioVars>>

InitCodec == ManagerInit /\ CodecInit /\ IoIdle

NextCodec == EncodePacket \/ DecodeEncoded \/ DecodeRaw

SpecCodec == InitCodec /\ [][NextCodec]_vars

(***************************************************************************)
(* A TCP connection to a relay (socket.recv on a blocking socket with a    *)
(* timeout)                                                                *)
(***************************************************************************)
\* how many payload bytes a packet of a relay stream carries at most
MaxBody == 2
\* how many packets (or 8-byte runs of foreign bytes) a relay stream holds
MaxFrames == 2

\* EzvizConfig.CHANNEL_UNENC_MESSAGE
CHANNEL_UNENC_MESSAGE == 0
\* EzvizConfig.CHANNEL_UNENC_STREAM
CHANNEL_UNENC_STREAM == 1
\* the largest chunk the read loop asks recv for
RecvMax == 8192

Min(a, b) == IF a < b THEN a ELSE b

\* what a relay sends in one piece: a packet on the stream channel or on
\* the message channel, with a payload that starts with the sentinel byte,
\* or a header-sized run of bytes that does not start with the sentinel
Frames ==
    {encode(Fill(n, 1), 0, c, 0).bytes :
        n \in 0..MaxBody, c \in {CHANNEL_UNENC_MESSAGE, CHANNEL_UNENC_STREAM}}
    \cup {<<0>> \o Fill(HeaderLen - 1, 1)}

RECURSIVE FrameSeqs(_)
FrameSeqs(n) ==
    IF n = 0 THEN {<<>>}
    ELSE FrameSeqs(n - 1) \cup {s \o f : s \in FrameSeqs(n - 1), f \in Frames}

\* everything a relay may have sent when the connection ends: up to
\* MaxFrames frames, cut anywhere
Streams ==
    UNION {{SubSeq(s, 1, k) : k \in 0..Len(s)} : s \in FrameSeqs(MaxFrames)}

\* bytes the peer has sent that recv has not returned yet
Avail == Len(stream) - pos

\* sock.recv(n) with bytes pending returns between 1 and n of them
RecvSizes(n) == 1..Min(n, Avail)

\* the bytes a recv returning k bytes hands over
Received(k) == SubSeq(stream, pos + 1, pos + k)

\* the peer closes its end; what it sent before is still delivered
PeerCloses ==
    /\ peer = "open"
    /\ peer' = "closed"
    /\ UNCHANGED <<stream, pos, event, readerVars, readerRest>>

(***************************************************************************)
(* stream_to_pipe: the read loop (ezviz-camera/stream_to_pipe.py)          *)
(***************************************************************************)
\* line 111: len(header) < 8 only when the read returned nothing
ShortHeaderEmpty(header) == Len(header) = 0

\* line 111: len(header) < 8
ShortHeader(header) == Len(header) < HeaderLen

\* a bad header ends the loop
AfterValueErrorBreak == "ended"

\* lines 117-119: except ValueError: continue
AfterValueError == "header"

\* any non-empty payload is written
EmitsAnyChannel == Len(r_data) > 0

\* line 132: channel == 0x01 and len(data) > 0
Emits == r_channel = CHANNEL_UNENC_STREAM /\ Len(r_data) > 0

\* the loop is entered on a connected socket, nothing written yet
ReaderInit ==
    /\ stream \in Streams
    /\ pos = 0
    /\ peer = "open"
    /\ event = "none"
    /\ r_pc = "header"
    /\ r_channel = 0
    /\ r_remaining = 0
    /\ r_data = <<>>
    /\ out = <<>>

\* lines 110-123: header = sock.recv(8) returns k bytes; a short header
\* ends the loop, a header _parse_header rejects is skipped, otherwise the
\* payload read starts
ReadHeader(k) ==
    /\ r_pc = "header"
    /\ k \in RecvSizes(HeaderLen)
    /\ pos' = pos + k
    /\ LET header == Received(k)
           h == parse_header(header)
       IN  IF ShortHeader(header)
           THEN /\ r_pc' = "ended"
                /\ event' = "short_header"
                /\ UNCHANGED <<r_channel, r_remaining, r_data>>
           ELSE IF h.err = "ValueError"
           THEN /\ r_pc' = AfterValueError
                /\ event' = IF k < HeaderLen THEN "short_header" ELSE "bad_header"
                /\ UNCHANGED <<r_channel, r_remaining, r_data>>
           ELSE /\ r_pc' = "payload"
                /\ event' = "header"
                /\ r_channel' = h.fields[2]
                /\ r_remaining' = h.fields[3]
                /\ r_data' = <<>>
    /\ UNCHANGED <<stream, peer, out, readerRest>>

\* lines 110-113: the peer has closed and everything was read: recv
\* returns b''
HeaderEof ==
    /\ r_pc = "header"
    /\ Avail = 0 /\ peer = "closed"
    /\ event' = "short_header"
    /\ r_pc' = IF ShortHeader(<<>>) THEN "ended" ELSE AfterValueError
    /\ UNCHANGED <<stream, pos, peer, r_channel, r_remaining, r_data, out,
                   readerRest>>

\* the loop is blocked in a recv
InRecv == r_pc = "header" \/ (r_pc = "payload" /\ r_remaining > 0)

\* lines 147-148: nothing arrives for 30 s, recv raises socket.timeout
RecvTimeout ==
    /\ InRecv
    /\ Avail = 0 /\ peer = "open"
    /\ event' = "timeout"
    /\ r_pc' = "ended"
    /\ UNCHANGED <<stream, pos, peer, r_channel, r_remaining, r_data, out,
                   readerRest>>

\* lines 149-152: recv raises another error (connection reset), caught by
\* `except Exception`
RecvReset ==
    /\ InRecv
    /\ event' = "reset"
    /\ r_pc' = "ended"
    /\ UNCHANGED <<stream, pos, peer, r_channel, r_remaining, r_data, out,
                   readerRest>>

\* lines 124-129: chunk = sock.recv(min(remaining, 8192)) returns k bytes
ReadPayload(k) ==
    /\ r_pc = "payload"
    /\ r_remaining > 0
    /\ k \in RecvSizes(Min(r_remaining, RecvMax))
    /\ r_data' = r_data \o Received(k)
    /\ r_remaining' = r_remaining - k
    /\ pos' = pos + k
    /\ event' = "chunk"
    /\ UNCHANGED <<stream, peer, r_pc, r_channel, out, readerRest>>

\* lines 126-127: the peer closed in the middle of the payload: `break`
PayloadEof ==
    /\ r_pc = "payload"
    /\ r_remaining > 0
    /\ Avail = 0 /\ peer = "closed"
    /\ event' = "eof_payload"
    /\ r_pc' = "emit"
    /\ UNCHANGED <<stream, pos, peer, r_channel, r_remaining, r_data, out,
                   readerRest>>

\* line 124: `while remaining > 0` is over
PayloadDone ==
    /\ r_pc = "payload"
    /\ r_remaining = 0
    /\ r_pc' = "emit"
    /\ UNCHANGED <<sockVars, r_channel, r_remaining, r_data, out,
                   readerRest>>

\* lines 132-137: the payload is written to stdout and flushed
EmitWrite ==
    /\ r_pc = "emit"
    /\ Emits
    /\ out' = out \o r_data
    /\ event' = "written"
    /\ r_pc' = "header"
    /\ UNCHANGED <<stream, pos, peer, r_channel, r_remaining, r_data,
                   readerRest>>

\* lines 141-143: the write raises BrokenPipeError (the segmenter is gone)
EmitBrokenPipe ==
    /\ r_pc = "emit"
    /\ Emits
    /\ event' = "broken_pipe"
    /\ r_pc' = "ended"
    /\ UNCHANGED <<stream, pos, peer, r_channel, r_remaining, r_data, out,
                   readerRest>>

\* line 132: nothing to write for this packet
EmitSkip ==
    /\ r_pc = "emit"
    /\ ~Emits
    /\ r_pc' = "header"
    /\ UNCHANGED <<sockVars, r_channel, r_remaining, r_data, out,
                   readerRest>>

\* lines 153-166: finally: sock.close()
CloseSocket ==
    /\ r_pc = "ended"
    /\ r_pc' = "closed"
    /\ vtdu_sock' = "closed"
    /\ UNCHANGED <<sockVars, r_channel, r_remaining, r_data, out,
                   vtm_sock, neg_error, capRest>>

\* one step of the process running stream_to_pipe
ReaderStep ==
    \/ \E k \in 1..HeaderLen : ReadHeader(k)
    \/ HeaderEof
    \/ RecvTimeout
    \/ RecvReset
    \/ \E k \in 1..MaxBody : ReadPayload(k)
    \/ PayloadEof
    \/ PayloadDone
    \/ EmitWrite
    \/ EmitBrokenPipe
    \/ EmitSkip
    \/ CloseSocket

InitReader ==
    /\ ManagerInit /\ CodecIdle /\ NegIdle /\ PruneIdle /\ FnIdle
    /\ ApiIdle /\ SigIdle
    /\ vtm_sock = "closed" /\ vtdu_sock = "connected" /\ neg_error = "none"
    /\ ReaderInit

NextReader == ReaderStep \/ PeerCloses

\* the process is scheduled as long as it can take a step
SpecReader == InitReader /\ [][NextReader]_vars /\ WF_vars(ReaderStep)

(***************************************************************************)
(* stream_to_pipe before its read loop (ezviz-camera/stream_to_pipe.py)    *)
(* and EzvizCamera._get_stream_info (ezviz_stream.py)                      *)
(***************************************************************************)
\* the capture process starts; what the second relay will send is fixed
CaptureInit ==
    /\ stream \in Streams
    /\ pos = 0
    /\ peer = "none"
    /\ event = "none"
    /\ r_pc = "cap_connect"
    /\ r_channel = 0
    /\ r_remaining = 0
    /\ r_data = <<>>
    /\ out = <<>>
    /\ CapIdle

\* the read loop of stream_to_pipe is running
InLoop == r_pc \in {"header", "payload", "emit"}

\* stream_to_pipe has been left: by an exception or past its finally
Returned == r_pc \in {"raised", "closed"}

\* a socket that was created and on which close() was not called
Open(sock) == sock \in {"unconnected", "connected"}

\* `length` of the initial response, once its header was read whole
InitialLength == parse_header(SubSeq(stream, 1, HeaderLen)).fields[3]

\* a header the initial parse rejects is only reported
AfterInitialValueError == "header"

\* line 52: camera.connect() returns, or raises out of stream_to_pipe
CameraConnect(ok) ==
    /\ r_pc = "cap_connect"
    /\ IF ok THEN r_pc' = "cap_info" /\ UNCHANGED neg_error
       ELSE r_pc' = "raised" /\ neg_error' = "login"
    /\ UNCHANGED <<sockVars, r_channel, r_remaining, r_data, out,
                   vtm_sock, vtdu_sock, capRest>>

\* _get_stream_info up to the token request: the device is found and the
\* relay address and tokens are obtained, or it raises
StreamInfoLookup(ok) ==
    /\ r_pc = "cap_info"
    /\ IF ok THEN r_pc' = "hop1_connect" /\ UNCHANGED neg_error
       ELSE r_pc' = "raised" /\ neg_error' = "lookup"
    /\ UNCHANGED <<sockVars, r_channel, r_remaining, r_data, out,
                   vtm_sock, vtdu_sock, capRest>>

\* _connect_socket to the first relay: a connect that fails raises and
\* leaves the socket it created unconnected
FirstHopConnect(ok) ==
    /\ r_pc = "hop1_connect"
    /\ IF ok
       THEN /\ vtm_sock' = "connected"
            /\ r_pc' = "hop1_exchange"
            /\ UNCHANGED neg_error
       ELSE /\ vtm_sock' = "unconnected"
            /\ r_pc' = "raised"
            /\ neg_error' = "vtm_connect"
    /\ UNCHANGED <<sockVars, r_channel, r_remaining, r_data, out,
                   vtdu_sock, capRest>>

\* what the exchange with the first relay ends in
FirstHopResults == {"ok", "bad_header", "timeout", "no_redirect"}

\* _get_stream_info's try/finally around _send_stream_request and the
\* redirect extraction: the socket is closed, then the redirect is
\* returned or the exception goes on
FirstHopExchange(res) ==
    /\ r_pc = "hop1_exchange"
    /\ res \in FirstHopResults
    /\ vtm_sock' = "closed"
    /\ IF res = "ok" THEN r_pc' = "hop2_socket" /\ UNCHANGED neg_error
       ELSE r_pc' = "raised" /\ neg_error' = res
    /\ UNCHANGED <<sockVars, r_channel, r_remaining, r_data, out,
                   vtdu_sock, capRest>>

\* lines 61-72: the socket to the second relay is created and configured
SecondHopSocket ==
    /\ r_pc = "hop2_socket"
    /\ vtdu_sock' = "unconnected"
    /\ r_pc' = "hop2_connect"
    /\ UNCHANGED <<sockVars, r_channel, r_remaining, r_data, out,
                   vtm_sock, neg_error, capRest>>

\* lines 75-79: connect and sendall; a failure is caught at line 149
SecondHopConnect(ok) ==
    /\ r_pc = "hop2_connect"
    /\ IF ok
       THEN /\ vtdu_sock' = "connected"
            /\ peer' = "open"
            /\ event' = "sent"
            /\ r_pc' = "initial_header"
            /\ UNCHANGED neg_error
       ELSE /\ event' = "reset"
            /\ r_pc' = "ended"
            /\ neg_error' = "vtdu_connect"
            /\ UNCHANGED <<vtdu_sock, peer>>
    /\ UNCHANGED <<stream, pos, r_channel, r_remaining, r_data, out,
                   vtm_sock, capRest>>

\* lines 82-92: header = sock.recv(8) returns k bytes; a header
\* _parse_header rejects is reported as a warning
InitialHeader(k) ==
    /\ r_pc = "initial_header"
    /\ k \in RecvSizes(HeaderLen)
    /\ pos' = pos + k
    /\ LET h == parse_header(Received(k))
       IN  IF h.err = "ValueError"
           THEN /\ r_pc' = AfterInitialValueError
                /\ event' = IF k < HeaderLen THEN "short_header"
                                             ELSE "bad_header"
                /\ neg_error' = IF k < HeaderLen THEN "short_header"
                                                 ELSE "bad_header"
           ELSE /\ r_pc' = IF h.fields[3] > 0 THEN "initial_body"
                                              ELSE "header"
                /\ event' = "header"
                /\ UNCHANGED neg_error
    /\ UNCHANGED <<stream, peer, r_channel, r_remaining, r_data, out,
                   vtm_sock, vtdu_sock, capRest>>

\* lines 82-92: the relay closed without answering: recv returns b''
InitialHeaderEof ==
    /\ r_pc = "initial_header"
    /\ Avail = 0 /\ peer = "closed"
    /\ event' = "short_header"
    /\ neg_error' = "short_header"
    /\ r_pc' = AfterInitialValueError
    /\ UNCHANGED <<stream, pos, peer, r_channel, r_remaining, r_data, out,
                   vtm_sock, vtdu_sock, capRest>>

\* line 89: response_body = sock.recv(length), one call, returns k bytes
InitialBody(k) ==
    /\ r_pc = "initial_body"
    /\ k \in RecvSizes(InitialLength)
    /\ pos' = pos + k
    /\ event' = "chunk"
    /\ r_pc' = "header"
    /\ UNCHANGED <<stream, peer, r_channel, r_remaining, r_data, out,
                   capVars, capRest>>

\* line 89: the relay closed after the header: recv returns b''
InitialBodyEof ==
    /\ r_pc = "initial_body"
    /\ Avail = 0 /\ peer = "closed"
    /\ event' = "eof_payload"
    /\ r_pc' = "header"
    /\ UNCHANGED <<stream, pos, peer, r_channel, r_remaining, r_data, out,
                   capVars, capRest>>

\* lines 147-152: an initial recv times out or fails otherwise
InitialRecvFails(how) ==
    /\ r_pc \in {"initial_header", "initial_body"}
    /\ how \in {"timeout", "reset"}
    /\ how = "timeout" => Avail = 0 /\ peer = "open"
    /\ event' = how
    /\ neg_error' = how
    /\ r_pc' = "ended"
    /\ UNCHANGED <<stream, pos, peer, r_channel, r_remaining, r_data, out,
                   vtm_sock, vtdu_sock, capRest>>

\* one step of the capture process before its read loop
CaptureStep ==
    \/ \E ok \in BOOLEAN : CameraConnect(ok)
    \/ \E ok \in BOOLEAN : StreamInfoLookup(ok)
    \/ \E ok \in BOOLEAN : FirstHopConnect(ok)
    \/ \E res \in FirstHopResults : FirstHopExchange(res)
    \/ SecondHopSocket
    \/ \E ok \in BOOLEAN : SecondHopConnect(ok)
    \/ \E k \in 1..HeaderLen : InitialHeader(k)
    \/ InitialHeaderEof
    \/ \E k \in 1..MaxBody : InitialBody(k)
    \/ InitialBodyEof
    \/ \E how \in {"timeout", "reset"} : InitialRecvFails(how)

InitCapture ==
    /\ ManagerInit /\ CodecIdle /\ NegIdle /\ PruneIdle /\ FnIdle
    /\ ApiIdle /\ SigIdle
    /\ CaptureInit

NextCapture == CaptureStep \/ ReaderStep \/ PeerCloses

SpecCapture == InitCapture /\ [][NextCapture]_vars

(***************************************************************************)
(* EzvizAPI and EzvizCamera (ezviz_stream.py)                              *)
(***************************************************************************)
\* how many entries a device listing holds at most
MaxListing == 2

\* self.session_id = None
NoSession == <<"None">>

\* a session token with the given middle segment
Jwt(mid) == <<"h", ".">> \o mid \o <<".", "g">>

\* session tokens a login response may carry: three segments whose middle
\* one decodes to claims with a signature ("S"), with an empty one ("E"),
\* without one ("N"), or does not decode ("X" and the empty segment), and
\* tokens of one, two and four segments
Tokens ==
    {Jwt(<<c>>) : c \in {"S", "E", "N", "X"}}
    \cup {Jwt(<<>>), <<"h">>, <<"h", ".", "S">>, Jwt(<<"S">>) \o <<".", "x">>}

\* HTTP status codes of a response, and the codes in `meta`
Statuses == {200, 401}

\* authAddr of a server-info response
AuthAddrs == {"", "https://auth"}

\* str.split('.')
RECURSIVE SplitDots(_)
SplitDots(s) ==
    IF \A i \in 1..Len(s) : s[i] # "."
    THEN <<s>>
    ELSE LET i == CHOOSE j \in 1..Len(s) :
                      s[j] = "." /\ \A l \in 1..(j - 1) : s[l] # "."
         IN  <<SubSeq(s, 1, i - 1)>> \o SplitDots(SubSeq(s, i + 1, Len(s)))

\* claims.get("s") of json.loads(base64.urlsafe_b64decode(payload)):
\* the signature, "None" when the claims have none, "error" when the
\* payload does not decode
ClaimS(payload) ==
    IF payload = <<"S">> THEN "sig"
    ELSE IF payload = <<"E">> THEN ""
    ELSE IF payload = <<"N">> THEN "None"
    ELSE "error"

\* a signature is accepted whenever the claims have the key
HasSignKey(sign) == sign # "None"

\* line 279: `if not sign` does not hold
HasSign(sign) == sign \notin {"None", ""}

\* line 261: `if not self.auth_url` does not hold
HasAuthUrl(url) == url \notin {"None", ""}

\* the outcome of a call: which call, whether it raised, what it returned
\* or the message it raised with, the device listing it was answered with
\* and the resource it settled on
Ret(call, raised, value) ==
    [call |-> call, raised |-> raised, value |-> value, listing |-> <<>>,
     resource |-> 0]

\* the same for a call that got a device listing and looked a resource up
RetFound(call, raised, value, listing, resource) ==
    [call |-> call, raised |-> raised, value |-> value, listing |-> listing,
     resource |-> resource]

\* get_vtdu_tokens on the given client state: the requests it sends and
\* what it returns or raises
get_vtdu_tokens(url, sess, status) ==
    IF ~HasAuthUrl(url)
    THEN [requests |-> <<>>, raised |-> TRUE, value |-> "AUTH_URL not set"]
    ELSE IF sess = NoSession
    THEN [requests |-> <<>>, raised |-> TRUE, value |-> "AttributeError"]
    ELSE LET jwt_parts == SplitDots(sess)
         IN  IF Len(jwt_parts) # 3
             THEN [requests |-> <<>>, raised |-> TRUE,
                   value |-> "Invalid JWT format"]
             ELSE LET sign == ClaimS(jwt_parts[2])
                  IN  IF sign = "error"
                      THEN [requests |-> <<>>, raised |-> TRUE,
                            value |-> "decode error"]
                      ELSE IF ~HasSign(sign)
                      THEN [requests |-> <<>>, raised |-> TRUE,
                            value |-> "No 's' field in JWT claims"]
                      ELSE [requests |-> <<"vtdutoken2">>, raised |-> FALSE,
                            value |-> IF status = 200 THEN "tokens"
                                                      ELSE "None"]

\* line 208: what a login that is not accepted leaves in self.session_id
AfterFailedLogin(sess) == sess

\* EzvizAPI.login: the response has the given status, meta code and
\* sessionId
Login(status, code, tok) ==
    /\ http_log' = <<"login">>
    /\ IF status = 200 /\ code = 200
       THEN /\ session_id' = tok
            /\ api_ret' = Ret("login", FALSE, "True")
       ELSE /\ session_id' = AfterFailedLogin(session_id)
            /\ api_ret' = Ret("login", FALSE, "False")
    /\ UNCHANGED <<auth_url, connected, mgrVars, codecVars, sockVars,
                   readerVars, negVars, pruneVars, fnVars, capVars, sigVars>>

\* EzvizAPI.get_server_info
GetServerInfo(status, addr) ==
    /\ http_log' = <<"server_info">>
    /\ IF status = 200
       THEN /\ auth_url' = addr
            /\ api_ret' = Ret("get_server_info", FALSE, "result")
       ELSE /\ UNCHANGED auth_url
            /\ api_ret' = Ret("get_server_info", FALSE, "None")
    /\ UNCHANGED <<session_id, connected, mgrVars, codecVars, sockVars,
                   readerVars, negVars, pruneVars, fnVars, capVars, sigVars>>

\* EzvizAPI.get_vtdu_tokens
GetVtduTokens(status) ==
    /\ LET r == get_vtdu_tokens(auth_url, session_id, status)
       IN  /\ http_log' = r.requests
           /\ api_ret' = Ret("get_vtdu_tokens", r.raised, r.value)
    /\ UNCHANGED <<session_id, auth_url, connected, mgrVars, codecVars,
                   sockVars, readerVars, negVars, pruneVars, fnVars, capVars,
                   sigVars>>

\* line 501: what connect leaves in self._connected when it raises
AfterFailedConnect(c) == c

\* EzvizCamera.connect: login, then get_server_info, then the flag
Connect(status, code, tok, status2, addr) ==
    IF ~(status = 200 /\ code = 200)
    THEN /\ http_log' = <<"login">>
         /\ session_id' = AfterFailedLogin(session_id)
         /\ connected' = AfterFailedConnect(connected)
         /\ api_ret' = Ret("connect", TRUE, "Login failed")
         /\ UNCHANGED <<auth_url, mgrVars, codecVars, sockVars, readerVars,
                        negVars, pruneVars, fnVars, capVars, sigVars>>
    ELSE IF status2 # 200
    THEN /\ http_log' = <<"login", "server_info">>
         /\ session_id' = tok
         /\ connected' = AfterFailedConnect(connected)
         /\ api_ret' = Ret("connect", TRUE, "Failed to get server info")
         /\ UNCHANGED <<auth_url, mgrVars, codecVars, sockVars, readerVars,
                        negVars, pruneVars, fnVars, capVars, sigVars>>
    ELSE /\ http_log' = <<"login", "server_info">>
         /\ session_id' = tok
         /\ auth_url' = addr
         /\ connected' = TRUE
         /\ api_ret' = Ret("connect", FALSE, "True")
         /\ UNCHANGED <<mgrVars, codecVars, sockVars, readerVars, negVars,
                        pruneVars, fnVars, capVars, sigVars>>

\* EzvizCamera.get_devices
CameraGetDevices(status) ==
    /\ IF ~connected
       THEN /\ http_log' = <<>>
            /\ api_ret' = Ret("get_devices", TRUE, "Not connected")
       ELSE /\ http_log' = <<"pagelist">>
            /\ api_ret' = Ret("get_devices", FALSE,
                              IF status = 200 THEN "devices" ELSE "[]")
    /\ UNCHANGED <<session_id, auth_url, connected, mgrVars, codecVars,
                   sockVars, readerVars, negVars, pruneVars, fnVars, capVars,
                   sigVars>>

\* the serial the camera was created for, and another one
DeviceSerial == 1
OtherSerial == 2

\* entries of resourceInfos: a serial, a resource type or none, and the
\* resource id
Entries ==
    [deviceSerial : {DeviceSerial, OtherSerial}, has_type : BOOLEAN,
     resourceType : {-1, 0, 1}, resourceId : 1..MaxListing]

\* device listings: up to MaxListing entries, each with its own id
Listings ==
    UNION {{l \in [1..n -> Entries] :
                \A i \in 1..n : l[i].resourceId = i
                                /\ (~l[i].has_type => l[i].resourceType = 0)} :
           n \in 0..MaxListing}

\* res.get("resourceType", 0)
ResourceType(res) == IF res.has_type THEN res.resourceType ELSE 0

\* the serial alone decides
MatchesSerial(res) == res.deviceSerial = DeviceSerial

\* line 562: the entry is the device asked for and is active
Matches(res) == res.deviceSerial = DeviceSerial /\ ResourceType(res) > 0

\* lines 560-565: the resource the loop stops at, 0 (None) if it finds none
Lookup(listing) ==
    IF \E i \in 1..Len(listing) : Matches(listing[i])
    THEN listing[CHOOSE i \in 1..Len(listing) :
                    /\ Matches(listing[i])
                    /\ \A j \in 1..(i - 1) : ~Matches(listing[j])].resourceId
    ELSE 0

\* EzvizCamera.capture_video / EzvizStream.capture and
\* EzvizCamera._get_stream_info, up to the connection to the first relay:
\* the device-list response has the given status and listing, the VTM table
\* knows the resource or not, the token response has the given status
GetStreamInfo(method, status, listing, vtm_ok, status2) ==
    /\ method \in {"capture_video", "_get_stream_info"}
    /\ LET resource == Lookup(listing)
           t == get_vtdu_tokens(auth_url, session_id, status2)
       IN  IF ~connected
           THEN /\ http_log' = <<>>
                /\ api_ret' = Ret(method, TRUE, "Not connected")
           ELSE IF status # 200
           THEN /\ http_log' = <<"pagelist">>
                /\ api_ret' = Ret(method, TRUE, "Failed to get device list")
           ELSE IF resource = 0
           THEN /\ http_log' = <<"pagelist">>
                /\ api_ret' = RetFound(method, TRUE, "Device not found",
                                       listing, 0)
           ELSE IF ~vtm_ok
           THEN /\ http_log' = <<"pagelist">>
                /\ api_ret' = RetFound(method, TRUE, "VTM info not found",
                                       listing, resource)
           ELSE IF t.raised
           THEN /\ http_log' = <<"pagelist">> \o t.requests
                /\ api_ret' = RetFound(method, TRUE, t.value, listing,
                                       resource)
           ELSE IF t.value = "None"
           THEN /\ http_log' = <<"pagelist">> \o t.requests
                /\ api_ret' = RetFound(method, TRUE,
                                       "Failed to get VTDU tokens", listing,
                                       resource)
           ELSE /\ http_log' = <<"pagelist">> \o t.requests \o <<"relay">>
                /\ api_ret' = RetFound(method, FALSE, "relay", listing,
                                       resource)
    /\ UNCHANGED <<session_id, auth_url, connected, mgrVars, codecVars,
                   sockVars, readerVars, negVars, pruneVars, fnVars, capVars,
                   sigVars>>

InitCamera ==
    ManagerInit /\ CodecIdle /\ SockIdle /\ ReaderIdle /\ NegIdle /\ PruneIdle
    /\ FnIdle /\ CapIdle /\ SigIdle /\ ApiIdle

NextCamera ==
    \/ \E status, code \in Statuses, tok \in Tokens : Login(status, code, tok)
    \/ \E status \in Statuses, addr \in AuthAddrs : GetServerInfo(status, addr)
    \/ \E status \in Statuses : GetVtduTokens(status)
    \/ \E status, code, status2 \in Statuses, tok \in Tokens,
          addr \in AuthAddrs : Connect(status, code, tok, status2, addr)
    \/ \E status \in Statuses : CameraGetDevices(status)
    \/ \E method \in {"capture_video", "_get_stream_info"},
          status, status2 \in Statuses, listing \in Listings,
          vtm_ok \in BOOLEAN :
            GetStreamInfo(method, status, listing, vtm_ok, status2)

SpecCamera == InitCamera /\ [][NextCamera]_vars

(***************************************************************************)
(* StreamManager._cleanup_segments (ezviz-camera/stream_manager.py)        *)
(***************************************************************************)
\* how many segments _cleanup_segments keeps: segments[:-30]
KeepSegments == 30
\* how many segment files more than that the directory may hold
MaxSurplus == 2
MaxFiles == KeepSegments + MaxSurplus

\* a prime above every file count of the model
MtimeModulus == 37
\* modification times of files 1..n: file i has mtime (i * m) % 37, which
\* is one-to-one on 1..36; m = 1 is oldest first, m = 36 newest first,
\* m = 7 neither
MtimeOrders == {1, 7, MtimeModulus - 1}

pruneRest == <<mgrVars, codecVars, sockVars, readerVars, negVars, fnVars,
               capVars, apiVars, sigVars>>

\* the file of S with the smallest modification time
Oldest(S) == CHOOSE f \in S : \A g \in S : mtime[f] <= mtime[g]

\* sorted(..., key=lambda p: p.stat().st_mtime)
RECURSIVE SortedByMtime(_)
SortedByMtime(S) ==
    IF S = {} THEN <<>>
    ELSE <<Oldest(S)>> \o SortedByMtime(S \ {Oldest(S)})

\* segments[30:]
SliceAfterKeep(segments) == SubSeq(segments, KeepSegments + 1, Len(segments))

\* segments[:-30]: everything but the last 30, nothing when there are 30
\* or fewer
SliceButLast(segments) ==
    SubSeq(segments, 1,
           IF Len(segments) > KeepSegments THEN Len(segments) - KeepSegments ELSE 0)

\* a directory of up to MaxFiles segment files with distinct modification
\* times
PruneInit ==
    /\ c_pc = "list"
    /\ \E n \in 0..MaxFiles, m \in MtimeOrders :
          /\ files = 1..n
          /\ mtime = [i \in 1..n |-> (i * m) % MtimeModulus]
    /\ doomed = <<>>

\* lines 165-166: the files are listed and sorted by modification time,
\* the loop is over segments[:-30]
CleanupList ==
    /\ c_pc = "list"
    /\ doomed' = SliceButLast(SortedByMtime(files))
    /\ c_pc' = "loop"
    /\ UNCHANGED <<files, mtime, pruneRest>>

\* line 167: seg.unlink()
CleanupUnlink ==
    /\ c_pc = "loop"
    /\ doomed # <<>>
    /\ files' = files \ {Head(doomed)}
    /\ doomed' = Tail(doomed)
    /\ UNCHANGED <<c_pc, mtime, pruneRest>>

\* lines 167-169: unlink raises; `except: pass` ends the pruning
CleanupUnlinkFails ==
    /\ c_pc = "loop"
    /\ doomed # <<>>
    /\ c_pc' = "failed"
    /\ UNCHANGED <<files, mtime, doomed, pruneRest>>

\* the loop is over, _cleanup_segments returns
CleanupReturn ==
    /\ c_pc = "loop"
    /\ doomed = <<>>
    /\ c_pc' = "done"
    /\ UNCHANGED <<files, mtime, doomed, pruneRest>>

InitPrune ==
    ManagerInit /\ CodecIdle /\ SockIdle /\ ReaderIdle /\ NegIdle /\ FnIdle
    /\ ExtraIdle
    /\ PruneInit

NextPrune == CleanupList \/ CleanupUnlink \/ CleanupUnlinkFails \/ CleanupReturn

SpecPrune == InitPrune /\ [][NextPrune]_vars

(***************************************************************************)
(* Session-token padding (EzvizAPI.get_vtdu_tokens) and redirect           *)
(* extraction (EzvizCamera._get_stream_info, EzvizStream.capture)          *)
(***************************************************************************)
\* the longest middle segment of a session token
MaxSegmentLen == 12
\* how many bytes the response body holds before the URL and after its
\* null byte
MaxJunk == 1

fnRest == <<mgrVars, codecVars, sockVars, readerVars, negVars, pruneVars,
            capVars, apiVars, sigVars>>

\* n copies of the character c: c * n
Repeat(c, n) == [i \in 1..n |-> c]

\* line 270 without the test of line 271
PaddingAlways(n) == 4 - (n % 4)

\* lines 270-272: padding = 4 - len(payload) % 4, used if padding != 4
Padding(n) == IF 4 - (n % 4) # 4 THEN 4 - (n % 4) ELSE 0

\* lines 269-272: the padded middle segment
Padded(payload) == payload \o Repeat("=", Padding(Len(payload)))

\* 'ysproto://'
SCHEME == <<"y", "s", "p", "r", "o", "t", "o", ":", "/", "/">>
\* '\x00'
NUL == "NUL"
\* a byte that is not valid UTF-8
BADBYTE == "0xFF"
Digits == <<"0", "1", "2", "3", "4", "5", "6", "7", "8", "9">>
IsDigit(c) == \E d \in 1..10 : Digits[d] = c
DigitValue(c) == (CHOOSE d \in 1..10 : Digits[d] = c) - 1

\* int(s) of a string of digits
RECURSIVE int(_)
int(s) ==
    IF s = <<>> THEN 0
    ELSE 10 * int(SubSeq(s, 1, Len(s) - 1)) + DigitValue(s[Len(s)])

\* body.decode('utf-8', errors='ignore'): invalid bytes are dropped
IsValidChar(c) == c # BADBYTE
Decode(body) == SelectSeq(body, IsValidChar)

\* does pat occur in s at index i (from 1)
OccursAt(s, pat, i) ==
    /\ i + Len(pat) - 1 <= Len(s)
    /\ SubSeq(s, i, i + Len(pat) - 1) = pat

\* s.find(pat) + 1: the first index (from 1) where pat occurs, 0 if none
Find(s, pat) ==
    IF \E i \in 1..Len(s) : OccursAt(s, pat, i)
    THEN CHOOSE i \in 1..Len(s) :
            /\ OccursAt(s, pat, i)
            /\ \A j \in 1..(i - 1) : ~OccursAt(s, pat, j)
    ELSE 0

\* s[start:] for start = find(...): from the match on, or, find having
\* returned -1, the last character
SliceFrom(s, found) ==
    IF found > 0 THEN SubSeq(s, found, Len(s)) ELSE SubSeq(s, Len(s), Len(s))

\* everything up to the last null character
UpToLastNul(s) ==
    IF \E i \in 1..Len(s) : s[i] = NUL
    THEN SubSeq(s, 1, (CHOOSE i \in 1..Len(s) :
                          s[i] = NUL /\ \A j \in (i + 1)..Len(s) : s[j] # NUL) - 1)
    ELSE s

\* s.split('\x00')[0]: everything up to the first null character
UpToNul(s) ==
    IF \E i \in 1..Len(s) : s[i] = NUL
    THEN SubSeq(s, 1, (CHOOSE i \in 1..Len(s) :
                          s[i] = NUL /\ \A j \in 1..(i - 1) : s[j] # NUL) - 1)
    ELSE s

\* how many characters of s from index i on are digits, up to the first
\* that is not
RECURSIVE DigitRun(_, _)
DigitRun(s, i) ==
    IF i <= Len(s) /\ IsDigit(s[i]) THEN 1 + DigitRun(s, i + 1) ELSE 0

\* does r'ysproto://([^:]+):(\d+)/' match s at index i: the scheme, one or
\* more characters other than ':' up to the first ':', one or more digits,
\* then '/'
MatchesAt(s, i) ==
    /\ OccursAt(s, SCHEME, i)
    /\ LET h == i + Len(SCHEME)
           c == Find(SubSeq(s, h, Len(s)), <<":">>)
       IN  /\ c > 1
           /\ DigitRun(s, h + c) > 0
           /\ h + c + DigitRun(s, h + c) <= Len(s)
           /\ s[h + c + DigitRun(s, h + c)] = "/"

\* re.search(...): the groups of the leftmost match, or no match
Search(s) ==
    IF \E i \in 1..Len(s) : MatchesAt(s, i)
    THEN LET i == CHOOSE i \in 1..Len(s) :
                     MatchesAt(s, i) /\ \A j \in 1..(i - 1) : ~MatchesAt(s, j)
             h == i + Len(SCHEME)
             c == Find(SubSeq(s, h, Len(s)), <<":">>)
         IN  [matched |-> TRUE,
              group1 |-> SubSeq(s, h, h + c - 2),
              group2 |-> SubSeq(s, h + c, h + c + DigitRun(s, h + c) - 1)]
    ELSE [matched |-> FALSE, group1 |-> <<>>, group2 |-> <<>>]

\* _get_stream_info lines 594-606 (capture lines 391-398): the redirect
\* URL, host and port taken from the body of the first-hop response;
\* match.group on no match raises AttributeError
ExtractRedirect(body) ==
    LET body_str == Decode(body)
        vtdu_url_start == Find(body_str, SCHEME)
        vtdu_url == UpToNul(SliceFrom(body_str, vtdu_url_start))
        match == Search(vtdu_url)
    IN  IF match.matched
        THEN [err |-> "none", vtdu_url |-> vtdu_url,
              vtdu_ip |-> match.group1, vtdu_port |-> int(match.group2)]
        ELSE [err |-> "AttributeError", vtdu_url |-> <<>>,
              vtdu_ip |-> <<>>, vtdu_port |-> 0]

\* bytes around the URL in a response body
JunkBytes == {NUL, BADBYTE, "y", ":"}
RECURSIVE Junk(_)
Junk(n) ==
    IF n = 0 THEN {<<>>}
    ELSE Junk(n - 1) \cup {s \o <<b>> : s \in Junk(n - 1), b \in JunkBytes}

Hosts == {<<"h">>, <<"1", "0", ".", "2">>}
Ports == {<<"8">>, <<"5", "5", "4">>}
Paths == {<<>>, <<"l", "?", "t", "=", "1", ":", "2", "/", "y">>}

\* the URL a response carries
UrlOf(r) == SCHEME \o r.host \o <<":">> \o r.port \o <<"/">> \o r.path
\* a response body: bytes, the URL, a null byte, more bytes
BodyOf(r) == r.before \o UrlOf(r) \o <<NUL>> \o r.after

\* either a middle segment to pad, or a first-hop response body
FnInit ==
    /\ f_out = <<>>
    /\ \/ /\ f_pc = "pad"
          /\ \E n \in 0..MaxSegmentLen : f_in = Repeat("A", n)
       \/ /\ f_pc = "extract"
          /\ f_in \in [before : Junk(MaxJunk), host : Hosts, port : Ports,
                       path : Paths, after : Junk(MaxJunk)]

\* get_vtdu_tokens pads the middle segment
PadSegment ==
    /\ f_pc = "pad"
    /\ f_out' = Padded(f_in)
    /\ f_pc' = "padded"
    /\ UNCHANGED <<f_in, fnRest>>

\* _get_stream_info extracts the redirect from the response body
ExtractFromBody ==
    /\ f_pc = "extract"
    /\ f_out' = ExtractRedirect(BodyOf(f_in))
    /\ f_pc' = "extracted"
    /\ UNCHANGED <<f_in, fnRest>>

InitFunctions ==
    ManagerInit /\ CodecIdle /\ SockIdle /\ ReaderIdle /\ NegIdle /\ PruneIdle
    /\ ExtraIdle
    /\ FnInit

NextFunctions == PadSegment \/ ExtractFromBody

SpecFunctions == InitFunctions /\ [][NextFunctions]_vars

(***************************************************************************)
(* EzvizStream._send_stream_request (ezviz_stream.py): one request, one    *)
(* response read with two recv calls                                       *)
(***************************************************************************)
negRest == <<mgrVars, codecVars, readerVars, pruneVars, fnVars, capVars,
             apiVars, sigVars>>

\* the relay's answer and what follows it are on their way; the request
\* is about to be sent
NegInit ==
    /\ stream \in Streams
    /\ pos = 0
    /\ peer = "open"
    /\ event = "none"
    /\ n_pc = "send"
    /\ n_header = <<>>
    /\ n_body = <<>>

\* lines 327-329: the StreamInfoReq packet (message code 0x13b, channel 0)
\* is handed to sock.send
SendRequest ==
    /\ n_pc = "send"
    /\ n_pc' = "recv_header"
    /\ event' = "sent"
    /\ UNCHANGED <<stream, pos, peer, n_header, n_body, negRest>>

\* lines 332-333: header = sock.recv(8) returns k bytes, decode_header
\* takes them or raises ValueError
NegRecvHeader(k) ==
    /\ n_pc = "recv_header"
    /\ k \in RecvSizes(HeaderLen)
    /\ pos' = pos + k
    /\ LET h == decode_header(Received(k))
       IN  IF h.err = "none"
           THEN /\ n_header' = h.fields
                /\ n_pc' = "recv_body"
                /\ event' = "header"
           ELSE /\ n_header' = n_header
                /\ n_pc' = "raised"
                /\ event' = IF k < HeaderLen THEN "short_header" ELSE "bad_header"
    /\ UNCHANGED <<stream, peer, n_body, negRest>>

\* lines 332-333: the peer has closed: recv returns b'' and decode_header
\* raises ValueError
NegHeaderEof ==
    /\ n_pc = "recv_header"
    /\ Avail = 0 /\ peer = "closed"
    /\ n_pc' = "raised"
    /\ event' = "short_header"
    /\ UNCHANGED <<stream, pos, peer, n_header, n_body, negRest>>

\* lines 336-338: body = sock.recv(length) returns k bytes, which are
\* returned with the header
NegRecvBody(k) ==
    /\ n_pc = "recv_body"
    /\ k \in RecvSizes(n_header[3])
    /\ pos' = pos + k
    /\ n_body' = Received(k)
    /\ n_pc' = "returned"
    /\ event' = "chunk"
    /\ UNCHANGED <<stream, peer, n_header, negRest>>

\* lines 336-338: recv(0), or recv on a connection the peer has closed,
\* returns b''
NegRecvNothing ==
    /\ n_pc = "recv_body"
    /\ n_header[3] = 0 \/ (Avail = 0 /\ peer = "closed")
    /\ n_body' = <<>>
    /\ n_pc' = "returned"
    /\ event' = IF n_header[3] = 0 THEN "chunk" ELSE "eof_payload"
    /\ UNCHANGED <<stream, pos, peer, n_header, negRest>>

\* nothing arrives within the socket's timeout: recv raises socket.timeout
NegTimeout ==
    /\ n_pc = "recv_header" \/ (n_pc = "recv_body" /\ n_header[3] > 0)
    /\ Avail = 0 /\ peer = "open"
    /\ n_pc' = "raised"
    /\ event' = "timeout"
    /\ UNCHANGED <<stream, pos, peer, n_header, n_body, negRest>>

\* the peer closes its end while the exchange runs
NegPeerCloses ==
    /\ n_pc \in {"recv_header", "recv_body"}
    /\ PeerCloses

InitNegotiate ==
    ManagerInit /\ CodecIdle /\ ReaderIdle /\ PruneIdle /\ FnIdle /\ ExtraIdle
    /\ NegInit

NextNegotiate ==
    \/ SendRequest
    \/ \E k \in 1..HeaderLen : NegRecvHeader(k)
    \/ NegHeaderEof
    \/ \E k \in 1..MaxBody : NegRecvBody(k)
    \/ NegRecvNothing
    \/ NegTimeout
    \/ NegPeerCloses

SpecNegotiate == InitNegotiate /\ [][NextNegotiate]_vars

(***************************************************************************)
(* ProtobufEncoder (ezviz_stream.py)                                       *)
(***************************************************************************)
\* the largest value of the contiguous range of integers encoded
MaxVarint == 300

\* integers at which the encoding grows by a byte, besides 0..MaxVarint
VarintEdges == {16383, 16384, 2097151, 2097152}

\* the loop goes on while the value has eight bits or seven set ones
MoreGroupsFrom127(value) == value >= 127

\* line 71: while value > 0x7f
MoreGroups(value) == value > 127

\* encode_varint: (value & 0x7f) | 0x80 while more groups follow, then
\* value & 0x7f
RECURSIVE encode_varint(_)
encode_varint(value) ==
    IF MoreGroups(value)
    THEN <<(value % 128) + 128>> \o encode_varint(value \div 128)
    ELSE <<value % 128>>

\* str.encode('utf-8') of one code point below 0x800
Utf8Char(cp) ==
    IF cp < 128 THEN <<cp>> ELSE <<192 + (cp \div 64), 128 + (cp % 64)>>

\* str.encode('utf-8') of a string given as its code points
RECURSIVE Utf8(_)
Utf8(str) ==
    IF Len(str) = 0 THEN <<>>
    ELSE IF Len(str) = 1 THEN Utf8Char(str[1])
    ELSE LET m == Len(str) \div 2
         IN  Utf8(SubSeq(str, 1, m)) \o Utf8(SubSeq(str, m + 1, Len(str)))

\* encode_string: tag with wire type 2, length of the encoded value, value
encode_string(field_number, value) ==
    LET tag == field_number * 8 + 2
        encoded_value == Utf8(value)
    IN  encode_varint(tag) \o encode_varint(Len(encoded_value))
            \o encoded_value

\* encode_int32: tag with wire type 0, value
encode_int32(field_number, value) ==
    encode_varint(field_number * 8) \o encode_varint(value)

\* "v3.6.3.20221124"
VERSION == <<118, 51, 46, 54, 46, 51, 46, 50, 48, 50, 50, 49, 49, 50, 52>>

\* field 2 is written whatever the key is
HasKeyAlways(vtm_stream_key) == TRUE

\* line 98: if vtm_stream_key
HasKey(vtm_stream_key) == vtm_stream_key # <<>>

\* create_stream_info_req
create_stream_info_req(stream_url, vtm_stream_key) ==
    encode_string(1, stream_url)
    \o (IF HasKey(vtm_stream_key) THEN encode_string(2, vtm_stream_key)
                                  ELSE <<>>)
    \o encode_string(3, VERSION)
    \o encode_int32(4, 0)
    \o encode_string(6, VERSION)

\* how long the long stream URL is: its length needs a two-byte varint
LongUrl == 130

\* stream URLs: empty, ASCII, with a two-byte character, long
StreamUrls == {<<>>, <<101>>, <<101, 233>>, [i \in 1..LongUrl |-> 101]}

\* relay stream keys: none, ASCII, with a two-byte character
StreamKeys == {<<>>, <<107>>, <<1082, 107>>}

\* either an integer to encode, or a URL and a key to build a request of
ProtoInit ==
    /\ f_out = <<>>
    /\ \/ /\ f_pc = "varint"
          /\ \E v \in (0..MaxVarint) \cup VarintEdges : f_in = <<v>>
       \/ /\ f_pc = "request"
          /\ \E u \in StreamUrls, k \in StreamKeys : f_in = <<u, k>>

EncodeVarint ==
    /\ f_pc = "varint"
    /\ f_out' = encode_varint(f_in[1])
    /\ f_pc' = "varint_done"
    /\ UNCHANGED <<f_in, fnRest>>

CreateStreamInfoReq ==
    /\ f_pc = "request"
    /\ f_out' = create_stream_info_req(f_in[1], f_in[2])
    /\ f_pc' = "request_done"
    /\ UNCHANGED <<f_in, fnRest>>

InitProto ==
    ManagerInit /\ CodecIdle /\ SockIdle /\ ReaderIdle /\ NegIdle /\ PruneIdle
    /\ ExtraIdle /\ ProtoInit

NextProto == EncodeVarint \/ CreateStreamInfoReq

SpecProto == InitProto /\ [][NextProto]_vars

(***************************************************************************)
(* run_on_demand_server: the shutdown signal handler                       *)
(* (ezviz-camera/stream_manager.py)                                        *)
(***************************************************************************)
\* the main thread: socketserver.TCPServer handles every request on it, and
\* Python runs signal handlers on it
Main == 1

\* lines 267-268: SIGTERM or SIGINT is delivered: the handler `shutdown`
\* starts on the main thread, on top of whatever that thread was executing,
\* and is about to call manager.stop_stream()
Signal ==
    /\ shutdown = "none"
    /\ shutdown' = "handling"
    /\ pc' = [pc EXCEPT ![Main] = "sig_stop"]
    /\ UNCHANGED <<running, process, python_proc, last_activity, restart_count,
                   lock, ret, local, observed, now, py, ff, codecVars,
                   sockVars, readerVars, negVars, pruneVars, fnVars, capVars,
                   apiVars>>

\* line 264 and line 108: the handler's stop_stream enters `with self.lock:`
SignalStopAcquire ==
    /\ shutdown = "handling"
    /\ pc[Main] = "sig_stop"
    /\ Acquire(Main)
    /\ pc' = [pc EXCEPT ![Main] = "stop_check"]
    /\ UNCHANGED <<running, process, python_proc, last_activity, restart_count,
                   ret, local, observed, now, py, ff, codecVars, ioVars>>

\* line 265: stop_stream has returned, sys.exit(0) ends the process
SignalExit ==
    /\ shutdown = "handling"
    /\ pc[Main] = "returned"
    /\ shutdown' = "exited"
    /\ UNCHANGED <<mgrVars, codecVars, sockVars, readerVars, negVars,
                   pruneVars, fnVars, capVars, apiVars>>

\* do_GET on the main thread: touch_activity, is_streaming, start_stream
MainCall ==
    /\ shutdown = "none"
    /\ \/ StartAcquire(Main)
       \/ StartRefresh(Main)
       \/ StartCount(Main)
       \/ StartPopenPython(Main)
       \/ StartPopenFfmpeg(Main)
       \/ StartRecord(Main)
       \/ Return(Main)
       \/ TouchActivity(Main)
       \/ IsStreamingAcquire(Main)
       \/ IsStreamingRead(Main)

\* the monitor thread, the clock, and the steps of a stop_stream under way
\* on either thread, as long as the process lives
Background ==
    /\ shutdown # "exited"
    /\ \/ StopAcquire(Monitor)
       \/ \E t \in {Main, Monitor} : StopNoop(t)
       \/ \E t \in {Main, Monitor} : StopClearRunning(t)
       \/ \E t \in {Main, Monitor} : StopPython(t)
       \/ \E t \in {Main, Monitor} : StopFfmpeg(t)
       \/ \E t \in {Main, Monitor} : StopClearHandles(t)
       \/ MonitorWake
       \/ MonitorNotRunning
       \/ MonitorCheckIdle
       \/ MonitorReadRunning
       \/ MonitorReadProcess
       \/ MonitorCleanup
       \/ Tick

NextSignal == MainCall \/ Background \/ Signal \/ SignalStopAcquire \/ SignalExit

SpecSignal == Init /\ [][NextSignal]_vars

(***************************************************************************)
(* Scenarios                                                               *)
(***************************************************************************)
\* the clock advances while the time since the last activity stays within
\* the idle timeout
QuickTick ==
    /\ running => now - last_activity < IdleTimeout
    /\ Tick

\* concurrent start_stream calls: every spawn succeeds, the processes stay
\* alive, nobody calls stop_stream, the stream never goes idle
NextStart ==
    \/ \E t \in Clients : StartAcquire(t)
    \/ \E t \in Clients : StartRefresh(t)
    \/ \E t \in Clients : StartCount(t)
    \/ \E t \in Clients : StartPopenPython(t)
    \/ \E t \in Clients : StartPopenFfmpeg(t)
    \/ \E t \in Clients : StartRecord(t)
    \/ \E t \in Clients : Return(t)
    \/ \E t \in Clients : IsStreamingAcquire(t)
    \/ \E t \in Clients : IsStreamingRead(t)
    \/ MonitorWake
    \/ MonitorCheckIdle
    \/ MonitorReadRunning
    \/ QuickTick

SpecStart == Init /\ [][NextStart]_vars

\* start_stream is called only to start the first pipeline or while one is
\* streaming
ScenarioStart(t) ==
    /\ restart_count = 0 \/ AlreadyStreaming
    /\ StartAcquire(t)

\* the idle-timeout scenario: a pipeline is started and stays alive; clients
\* touch, ask is_streaming and call start_stream while it streams; the
\* monitor ticks; time passes
NextIdle ==
    \/ \E t \in Clients : ScenarioStart(t)
    \/ \E t \in Clients : StartRefresh(t)
    \/ \E t \in Clients : StartCount(t)
    \/ \E t \in Clients : StartPopenPython(t)
    \/ \E t \in Clients : StartPopenFfmpeg(t)
    \/ \E t \in Clients : StartRecord(t)
    \/ \E t \in Clients : Return(t)
    \/ \E t \in Clients : TouchActivity(t)
    \/ \E t \in Clients : IsStreamingAcquire(t)
    \/ \E t \in Clients : IsStreamingRead(t)
    \/ MonitorWake
    \/ MonitorNotRunning
    \/ MonitorCheckIdle
    \/ MonitorReadRunning
    \/ MonitorReadProcess
    \/ StopAcquire(Monitor)
    \/ StopNoop(Monitor)
    \/ MonitorCleanup
    \/ Tick

SpecIdle == Init /\ [][NextIdle]_vars

(***************************************************************************)
(* Properties                                                              *)
(***************************************************************************)
\* the pipelines with a live process
LivePipelines == {i \in PairIds : py[i] \/ ff[i]}

\* C1: in every reachable state at most one spawned capture-process /
\* segmenter pair has a live process.
AtMostOnePipeline == Cardinality(LivePipelines) <= 1

\* C2: concurrent start_stream calls from IDLE, with the processes staying
\* alive, leave exactly one live pair and restart_count = 1: no state has
\* a second pipeline or a second restart, and once a call has returned the
\* one pair is alive, recorded and running.
ConcurrentStartOnce ==
    /\ restart_count <= 1
    /\ Cardinality(LivePipelines) <= 1
    /\ Cardinality({t \in Clients : ret[t] = "start_spawned"}) <= 1
    /\ \A t \in Clients :
          ret[t] \in {"start_spawned", "start_refreshed"} =>
             /\ restart_count = 1
             /\ running /\ process = 1 /\ python_proc = 1
             /\ py[1] /\ ff[1]
             /\ last_activity <= now /\ now - last_activity <= IdleTimeout

\* C2 witness: one call spawned the pipeline and the other, concurrent with
\* it, only refreshed.
ConcurrentStartWitness ==
    /\ ret[1] = "start_spawned"
    /\ ret[2] = "start_refreshed"
    /\ last_activity = now /\ now > 1

\* C3: when a monitor tick has seen the stream idle beyond the timeout,
\* then at the end of that tick the pipeline it saw is torn down: both its
\* processes are dead, no handle points to it any more.
IdleTeardown ==
    (pc[Monitor] = "m_sleep" /\ observed # None) =>
        /\ ~Alive(py, observed)
        /\ ~Alive(ff, observed)
        /\ process # observed
        /\ python_proc # observed

StopSteps == {"stop_python", "stop_ffmpeg", "stop_clear"}

\* C5: stop_stream changes nothing when running is false; a call that
\* found running set ends with both processes dead, both handles cleared,
\* running false and restart_count as it was.
StopStreamEffect ==
    [][\A t \in Threads :
          /\ (pc[t] = "stop_check" /\ pc'[t] # "stop_check" /\ ~running) =>
                UNCHANGED <<running, process, python_proc, last_activity,
                            restart_count, py, ff>>
          /\ (pc[t] \in StopSteps /\ pc'[t] \notin StopSteps) =>
                /\ process' = None /\ python_proc' = None
                /\ ~running'
                /\ ~Alive(py', python_proc) /\ ~Alive(ff', process)
                /\ restart_count' = restart_count
      ]_vars

TerminationFailureContained ==
    /\ pc[Monitor] # "m_dead"
    /\ \A t \in Clients : ret[t] # "stop_raised"

\* C8: the manager's mutable state changes only in steps taken while the
\* lock is held.
LockDiscipline ==
    [][<<running, last_activity, process, python_proc, restart_count>>'
          # <<running, last_activity, process, python_proc, restart_count>>
       => lock # NoThread]_vars

\* C9: decoding the first 8 bytes of an encoded packet returns the
\* channel, sequence and message code that were encoded and the length of
\* the payload, and the bytes after the header are the payload.
PacketRoundTrip ==
    phase = "decoded" =>
        /\ decoded.err = "none"
        /\ decoded.fields = <<MAGIC_BYTE, packet.channel, Len(packet.data),
                              packet.sequence, packet.message_code>>
        /\ Len(wire) = HeaderLen + Len(packet.data)
        /\ SubSeq(wire, HeaderLen + 1, Len(wire)) = packet.data

\* C9 witness: a packet with the longest payload and two-byte field values
\* has been encoded and decoded.
PacketRoundTripWitness ==
    /\ phase = "decoded"
    /\ Len(packet.data) = 65535
    /\ packet.sequence = 256
    /\ packet.message_code = MSG_STREAMINFO_REQ
    /\ packet.channel = 11

\* C10: both header decoders succeed only on 8 bytes starting with the
\* sentinel, and fail with ValueError, yielding no fields, on anything
\* else.
WellFormedHeader == Len(wire) = HeaderLen /\ wire[1] = MAGIC_BYTE

HeaderRejected(r) == r.err = "ValueError" /\ r.fields = <<>>

HeaderDecodeRejects ==
    phase = "raw_decoded" =>
        /\ WellFormedHeader => (decoded.err = "none" /\ parsed.err = "none")
        /\ ~WellFormedHeader => (HeaderRejected(decoded) /\ HeaderRejected(parsed))

(***************************************************************************)
(* Properties of stream_to_pipe's read loop                                *)
(***************************************************************************)
\* a step in which the header read returned 8 bytes that do not start with
\* the sentinel
BadHeaderRead ==
    /\ r_pc = "header"
    /\ pos' = pos + HeaderLen
    /\ stream[pos + 1] # MAGIC_BYTE

\* C11: in the read loop, an 8-byte read whose first byte is not the
\* sentinel does not end the loop: the bytes are dropped, nothing is
\* written for them and nothing of them is kept, and the loop is back at
\* reading a header.
ReaderResync ==
    [][BadHeaderRead =>
         /\ r_pc' = "header"
         /\ out' = out
         /\ UNCHANGED <<r_channel, r_remaining, r_data>>]_vars

\* the loop went on after skipping 8 foreign bytes and wrote a later packet
ReaderResyncWitness ==
    /\ Len(stream) > HeaderLen
    /\ stream[1] # MAGIC_BYTE
    /\ r_pc = "header"
    /\ pos > HeaderLen
    /\ out # <<>>

\* the loop is over
ReaderEnded == r_pc \in {"ended", "closed"}

RECURSIVE PacketBodies(_)
PacketBodies(i) ==
    IF i = pos THEN [ok |-> TRUE, bytes |-> <<>>]
    ELSE IF i > pos \/ Len(stream) - i < HeaderLen
    THEN [ok |-> FALSE, bytes |-> <<>>]
    ELSE LET h == Unpack(SubSeq(stream, i + 1, i + HeaderLen))
         IN  IF h[1] # MAGIC_BYTE THEN PacketBodies(i + HeaderLen)
             ELSE LET last == Min(i + HeaderLen + h[3], Len(stream))
                      body == SubSeq(stream, i + HeaderLen + 1, last)
                      rest == PacketBodies(last)
                  IN  [ok |-> /\ rest.ok
                              /\ (Len(body) < h[3] => peer = "closed"),
                       bytes |-> (IF h[2] = CHANNEL_UNENC_STREAM /\ body # <<>>
                                  THEN body ELSE <<>>) \o rest.bytes]

\* C13: whenever the loop is about to read a header, what it has written
\* is the concatenation, in order, of the payloads of the stream-channel
\* packets with a non-empty payload among the packets read so far, each
\* payload whole unless the peer closed inside it; the output only grows
\* when a packet is completed.
ReaderOutput ==
    /\ [](r_pc = "header" =>
            PacketBodies(0).ok /\ out = PacketBodies(0).bytes)
    /\ [][out' # out => r_pc' = "header"]_vars

\* two stream-channel packets were written, after a packet on another
\* channel or without payload was passed over
ReaderOutputWitness ==
    /\ r_pc = "header"
    /\ event = "written"
    /\ Len(out) > MaxBody

(***************************************************************************)
(* Properties of _cleanup_segments                                         *)
(***************************************************************************)
\* the files the pruning found
Found == DOMAIN mtime

\* the files of S that fewer than k files of S are newer than
MostRecent(S, k) ==
    {f \in S : Cardinality({g \in S : mtime[g] > mtime[f]}) < k}

\* C14: when _cleanup_segments has returned and no deletion failed, the
\* files left are exactly the 30 most recently modified of those it found
\* if it found more than 30, and all of them if it found 30 or fewer.
SegmentPruning ==
    c_pc = "done" =>
        /\ files = MostRecent(Found, KeepSegments)
        /\ Cardinality(Found) > KeepSegments => Cardinality(files) = KeepSegments
        /\ Cardinality(Found) <= KeepSegments => files = Found

\* more than 30 files that were not in order of age were pruned to 30
SegmentPruningWitness ==
    /\ c_pc = "done"
    /\ Cardinality(Found) = MaxFiles
    /\ Cardinality(files) = KeepSegments
    /\ mtime[1] < mtime[2] /\ mtime[5] > mtime[6]

(***************************************************************************)
(* Properties of the redirect extraction and of the token padding          *)
(***************************************************************************)
\* C15: for a response body that holds a ysproto:// URL followed by a null
\* byte and further bytes, the extracted second-hop URL is the text from
\* the start of the scheme up to the first null byte after it, and the
\* extracted host and port are those of that URL.
RedirectExtraction ==
    f_pc = "extracted" =>
        /\ f_out.err = "none"
        /\ f_out.vtdu_url = UrlOf(f_in)
        /\ f_out.vtdu_ip = f_in.host
        /\ f_out.vtdu_port = int(f_in.port)

\* a URL with a multi-digit port and a path holding ':' and '/' was
\* extracted from between foreign bytes, with a null byte among the
\* trailing ones
RedirectExtractionWitness ==
    /\ f_pc = "extracted"
    /\ f_out.vtdu_port = 554
    /\ Len(f_in.path) > 0
    /\ f_in.before # <<>>
    /\ f_in.after = <<NUL>>

\* C16: the middle segment gets (4 - len mod 4) '=' characters appended
\* when len mod 4 is not 0 and none when it is 0: the padded text is the
\* segment followed by fewer than 4 '=' and its length is a multiple of 4.
TokenPadding ==
    f_pc = "padded" =>
        LET n == Len(f_in)
            added == Len(f_out) - n
        IN  /\ SubSeq(f_out, 1, n) = f_in
            /\ \A i \in (n + 1)..Len(f_out) : f_out[i] = "="
            /\ added = (IF n % 4 # 0 THEN 4 - (n % 4) ELSE 0)
            /\ added \in 0..3
            /\ Len(f_out) % 4 = 0

\* a segment of length 11 got one '='
TokenPaddingWitness ==
    f_pc = "padded" /\ Len(f_in) = 11 /\ f_out = f_in \o <<"=">>

(***************************************************************************)
(* Properties of _send_stream_request                                      *)
(***************************************************************************)
\* the response at the head of the stream is whole: a header that starts
\* with the sentinel and all the payload bytes it announces
WholeResponse ==
    /\ Len(stream) >= HeaderLen
    /\ stream[1] = MAGIC_BYTE
    /\ Len(stream) >= HeaderLen + UnpackU16(stream[3], stream[4])

\* C17: when the relay sends a whole response, however the transport
\* splits it into partial reads, the exchange reads 8 bytes as the header
\* and returns a body of exactly `length` bytes, the bytes that follow the
\* header, leaving none of the response unread.
NegotiationReadsWhole ==
    WholeResponse =>
        /\ n_pc # "raised"
        /\ n_pc = "returned" =>
              /\ Len(n_body) = n_header[3]
              /\ n_body = SubSeq(stream, HeaderLen + 1, HeaderLen + n_header[3])
              /\ pos = HeaderLen + n_header[3]

(***************************************************************************)
(* Properties of the manager's state at rest, of the teardown and of the   *)
(* monitor thread                                                          *)
(***************************************************************************)
\* no thread is inside a StreamManager method or inside a monitor tick
AtRest ==
    /\ lock = NoThread
    /\ pc[Monitor] \in {"none", "m_sleep", "m_dead"}
    /\ \A t \in Clients : pc[t] \in {"idle", "returned"}

\* C18: at rest the running flag is true exactly when both process
\* handles are set; in particular running is never false at rest while a
\* handle is still recorded.
RunningMatchesHandles ==
    AtRest => (running <=> (process # None /\ python_proc # None))

\* a thread is inside stop_stream's terminate / wait / kill of a process
Terminating(t) == pc[t] \in {"stop_python", "stop_ffmpeg"}

\* C19: a thread that terminates, waits for or kills a process in
\* stop_stream does not hold the manager's lock, so no other caller waits
\* for the lock during a teardown.
TerminationOutsideLock ==
    \A t \in Threads : Terminating(t) => lock # t

\* C20: the monitor thread, once started, keeps ticking: it never ends.
MonitorKeepsTicking == pc[Monitor] # "m_dead"

(***************************************************************************)
(* Properties of touch_activity                                            *)
(***************************************************************************)
\* C21: touch_activity can be called in every state of the manager, and a
\* call sets last_activity to the current time and changes nothing else:
\* not the running flag, the handles, the restart counter, the processes
\* or the monitor thread.
TouchActivityFrame ==
    /\ [](\A t \in Clients : pc[t] = "idle" => ENABLED TouchActivity(t))
    /\ [][(\E t \in Clients : TouchActivity(t)) =>
            /\ last_activity' = now
            /\ UNCHANGED <<running, process, python_proc, restart_count, lock,
                           py, ff>>
            /\ pc'[Monitor] = pc[Monitor]]_vars

\* touch_activity was called while IDLE, before any pipeline was started,
\* and none was started
TouchActivityWitness ==
    /\ last_activity > 0
    /\ restart_count = 0
    /\ ~running /\ process = None /\ python_proc = None
    /\ pc[Monitor] = "none"


\* C22: once any step of the negotiation has failed (login, lookup, a
\* connect, a relay answer whose header is short or has a wrong first
\* byte, a recv that times out), the read loop is not running and nothing
\* has been written to stdout.
NegotiationErrorAborts == neg_error # "none" => ~InLoop /\ out = <<>>


\* C29: at most one of the two relay sockets is open at any time, and once
\* stream_to_pipe has been left, by its finally block or by an exception,
\* every socket it created has been closed.
SocketRelease ==
    /\ ~(Open(vtm_sock) /\ Open(vtdu_sock))
    /\ Returned => ~Open(vtm_sock) /\ ~Open(vtdu_sock)


\* C23: after a login that was not accepted, alone or as the first step of
\* connect, the client holds no session token.
FailedLoginClearsSession ==
    \/ api_ret.call = "login" /\ api_ret.value = "False"
    \/ api_ret.call = "connect" /\ api_ret.value = "Login failed"
    => session_id = NoSession

\* positions of the dots of a token
Dots(s) == {i \in 1..Len(s) : s[i] = "."}

\* the text between the first and the last dot
Middle(s) ==
    LET a == CHOOSE i \in Dots(s) : \A j \in Dots(s) : i <= j
        b == CHOOSE i \in Dots(s) : \A j \in Dots(s) : j <= i
    IN  SubSeq(s, a + 1, b - 1)

\* the auth-server URL is set, the token has two dots and its middle
\* segment decodes to claims with a non-empty signature
TokenRequestAllowed ==
    /\ auth_url # "None"
    /\ session_id # NoSession
    /\ Cardinality(Dots(session_id)) = 2
    /\ ClaimS(Middle(session_id)) \notin {"error", "None", ""}

\* C24: a relay-token request is sent only when the auth-server URL is set,
\* the session token has exactly three dot-separated segments and its
\* decoded middle segment holds a non-empty claim `s`; when one of these
\* fails, get_vtdu_tokens raises and sends nothing.
TokenRequestGuarded ==
    /\ (\E i \in 1..Len(http_log) : http_log[i] = "vtdutoken2")
            => TokenRequestAllowed
    /\ api_ret.call = "get_vtdu_tokens" /\ ~TokenRequestAllowed
            => api_ret.raised /\ http_log = <<>>

TokenRequestGuardedWitness ==
    /\ api_ret.call = "get_vtdu_tokens"
    /\ api_ret.raised
    /\ auth_url = "https://auth"
    /\ session_id = Jwt(<<"E">>)

\* the listing has an entry with the camera's serial and a positive
\* resource type
Listed(listing) ==
    \E i \in 1..Len(listing) :
        /\ listing[i].deviceSerial = DeviceSerial
        /\ listing[i].has_type /\ listing[i].resourceType >= 1

\* C27: when the device listing has no entry with the camera's serial and a
\* positive resource type (a missing type counts as zero), the negotiation
\* raises "not found" having sent the device-list request only; otherwise
\* it goes on with the first such entry.
DeviceLookup ==
    api_ret.call \in {"capture_video", "_get_stream_info"}
    /\ api_ret.value \notin {"Not connected", "Failed to get device list"}
    => IF Listed(api_ret.listing)
       THEN \E i \in 1..Len(api_ret.listing) :
               /\ api_ret.resource = api_ret.listing[i].resourceId
               /\ api_ret.listing[i].deviceSerial = DeviceSerial
               /\ api_ret.listing[i].has_type
               /\ api_ret.listing[i].resourceType >= 1
               /\ \A j \in 1..(i - 1) :
                      \/ api_ret.listing[j].deviceSerial # DeviceSerial
                      \/ ~api_ret.listing[j].has_type
                      \/ api_ret.listing[j].resourceType <= 0
       ELSE /\ api_ret.raised
            /\ api_ret.value = "Device not found"
            /\ http_log = <<"pagelist">>

DeviceLookupWitness ==
    /\ api_ret.call = "_get_stream_info"
    /\ Len(api_ret.listing) = 2
    /\ api_ret.listing[1].deviceSerial = DeviceSerial
    /\ api_ret.listing[1].has_type /\ api_ret.listing[1].resourceType = 0
    /\ api_ret.listing[2].deviceSerial = DeviceSerial
    /\ api_ret.listing[2].resourceType = 1
    /\ api_ret.resource = 2
    /\ api_ret.value = "relay"

\* C30: a connect that raised leaves the camera not connected.
FailedConnectNotConnected ==
    api_ret.call = "connect" /\ api_ret.raised => ~connected


\* 128 to the power n
RECURSIVE Pow128(_)
Pow128(n) == IF n = 0 THEN 1 ELSE 128 * Pow128(n - 1)

\* the sum over the bytes of (byte & 0x7f) * 128^i, first byte at i = 0
RECURSIVE GroupSum(_)
GroupSum(b) ==
    IF b = <<>> THEN 0
    ELSE (b[Len(b)] % 128) * Pow128(Len(b) - 1)
         + GroupSum(SubSeq(b, 1, Len(b) - 1))

\* C26: the encoding of v is not empty, every byte but the last has its top
\* bit set and the last has not, the 7-bit groups, least significant first,
\* add up to v, 0 is the single byte 0 and no encoding of several bytes
\* ends in a zero group.
VarintEncoding ==
    f_pc = "varint_done" =>
        /\ Len(f_out) >= 1
        /\ \A i \in 1..(Len(f_out) - 1) : f_out[i] \in 128..255
        /\ f_out[Len(f_out)] \in 0..127
        /\ GroupSum(f_out) = f_in[1]
        /\ f_in[1] = 0 => f_out = <<0>>
        /\ Len(f_out) > 1 => f_out[Len(f_out)] # 0

VarintEncodingWitness ==
    /\ f_pc = "varint_done"
    /\ f_in = <<16384>>
    /\ f_out = <<128, 128, 1>>

\* where the varint starting at position p of b ends
RECURSIVE VarintEnd(_, _)
VarintEnd(b, p) ==
    IF p > Len(b) THEN p
    ELSE IF b[p] < 128 THEN p ELSE VarintEnd(b, p + 1)

\* the fields of a message read back from position p: number, wire type
\* and value (an integer, or the bytes of a length-delimited field)
RECURSIVE ReadFields(_, _)
ReadFields(b, p) ==
    IF p > Len(b) THEN <<>>
    ELSE LET q == VarintEnd(b, p)
             tag == GroupSum(SubSeq(b, p, q))
             r == VarintEnd(b, q + 1)
             n == GroupSum(SubSeq(b, q + 1, r))
         IN  IF tag % 8 = 2
             THEN <<[field |-> tag \div 8, wire |-> 2, int |-> 0,
                     bytes |-> SubSeq(b, r + 1, r + n)]>>
                  \o ReadFields(b, r + n + 1)
             ELSE <<[field |-> tag \div 8, wire |-> tag % 8, int |-> n,
                     bytes |-> <<>>]>>
                  \o ReadFields(b, r + 1)

\* a length-delimited field holding the UTF-8 bytes of a string
StringField(n, str) == [field |-> n, wire |-> 2, int |-> 0, bytes |-> Utf8(str)]

\* C25: read back, the request holds field 1 with the stream URL, then
\* field 2 with the relay stream key exactly when the key is not empty,
\* then field 3 with the client version, field 4 with the integer 0 and
\* field 6 with the client version again, and nothing else.
StreamInfoReqLayout ==
    f_pc = "request_done" =>
        ReadFields(f_out, 1) =
            <<StringField(1, f_in[1])>>
            \o (IF f_in[2] # <<>> THEN <<StringField(2, f_in[2])>> ELSE <<>>)
            \o <<StringField(3, VERSION),
                 [field |-> 4, wire |-> 0, int |-> 0, bytes |-> <<>>],
                 StringField(6, VERSION)>>

StreamInfoReqLayoutWitness ==
    /\ f_pc = "request_done"
    /\ f_in = <<<<101, 233>>, <<>>>>
    /\ Len(ReadFields(f_out, 1)) = 4
    /\ SubSeq(f_out, 1, 5) = <<10, 3, 101, 195, 169>>


\* C28: no thread waits for the manager lock while holding it: the signal
\* handler's stop_stream never starts on the main thread while a manager
\* call of that thread is inside `with self.lock:`.
NoSelfDeadlock == ~(pc[Main] = "sig_stop" /\ lock = Main)


\* C31: when a start_stream call ends because spawning the capture process
\* or the segmenter failed, the running flag is false, neither process of
\* the pair that call was starting is alive without being the recorded
\* handle, and the caller no longer holds the lock.
SpawnFailureLeavesIdle ==
    [][\A t \in Clients :
          (ret[t] # "start_raised" /\ ret'[t] = "start_raised") =>
              /\ ~running'
              /\ ~(py'[restart_count] /\ python_proc' # restart_count)
              /\ ~(ff'[restart_count] /\ process' # restart_count)
              /\ lock' # t
      ]_vars

=============================================================================
